---------------------------- MODULE Spec2Model ----------------------------
(***************************************************************************)
(* A model of the core of embedded-tls: the zero-copy wire codec, the      *)
(* per-message extension groups, the record header, the inbound handshake  *)
(* reader with its transcript rule, and the client handshake driver.       *)
(*                                                                         *)
(* Bytes are naturals in 0..255, buffers are sequences of bytes.  The      *)
(* transcript hash is modelled symbolically: the state of a digest is the  *)
(* sequence of bytes it has absorbed, and finalize wraps that sequence.    *)
(***************************************************************************)
EXTENDS Integers, Sequences, FiniteSets, TLC

VARIABLES
    \* ---- PreSharedKeyClientHello codec (pre_shared_key.rs)
    psk_identities,   \* the PskIdentity values given to the encoder
    psk_binders,      \* the binder lengths given to Binders<Local>
    psk_pc,           \* "input" | "encoded" | "framed" | "parsed"
    psk_shape,        \* which bytes were parsed: "none" | "encoded" | "framed"
    psk_wire,         \* the bytes handed to PreSharedKeyClientHello::parse
    psk_result,       \* what PreSharedKeyClientHello::parse returned
    \* ---- outbound record headers (record.rs)
    rec_epoch,        \* write epoch: "clear" | "handshake" | "application"
    rec_out,          \* the records emitted so far, oldest first
    \* ---- extension groups (extension_group_macro.rs, messages.rs)
    ext_group,        \* the message whose extension group parses
    ext_cap,          \* N, the capacity of the result vector
    ext_items,        \* the extensions on the wire, in wire order
    ext_pc,           \* "build" | "parsed_one" | "parsed_vector"
    ext_result,       \* what parse / parse_vector returned
    \* ---- inbound handshake messages and the transcript (handshake/mod.rs)
    rd_buf,           \* the ParseBuffer over the current record payload
    rd_digest,        \* the transcript digest
    rd_sent,          \* the messages the peer has sent, oldest first
    rd_log,           \* one entry per successful RemoteHandshake::read
    rd_err,           \* "none", or the error the last read returned
    \* ---- the client handshake driver
    cl_state,         \* START, WAIT_SH, ... CONNECTED, or ERROR
    cl_psk,           \* the ClientHello carries a pre_shared_key extension
    cl_send,          \* "idle", or "encoded": a payload waits for finish_record
    cl_wbuf,          \* the write buffer
    cl_transcript,    \* the transcript digest
    cl_keys,          \* the secrets installed: "none" | "handshake" | "application"
    cl_retries,       \* HelloRetryRequests answered
    cl_cert_requested,\* a CertificateRequest has been read
    cl_log,           \* the messages read, oldest first
    cl_hellos,        \* the ClientHellos sent: as encoded and as sent
    \* ---- a client and a server on a loopback transport
    lb_state,         \* per side: the handshake state
    lb_keys,          \* per side: the write and the read half of the key schedule
    lb_wire,          \* per side: the records in flight to that side, oldest first
    lb_tx,            \* per side: the application bytes still to write
    lb_rx,            \* per side: the application bytes read so far
    lb_cfg,           \* what the server is configured to do
    lb_hist,          \* per side and direction: the secrets installed and the
                      \* records sealed or opened, oldest first
    \* ---- inbound records (record.rs RecordHeader, RemoteRecord)
    rcv_header,       \* the five header bytes read from the transport
    rcv_data,         \* the payload read after the header
    rcv_pc,           \* "wait" | "header" | "rejected" | "decoded"
    rcv_decoded,      \* what RecordHeader::decode returned
    rcv_record,       \* what RemoteRecord::decode returned
    \* ---- inbound handshake dispatch (handshake/mod.rs RemoteHandshake::parse)
    dp_msg,           \* the bytes of the record payload
    dp_pc,            \* "wait" | "received" | "read"
    dp_result,        \* what RemoteHandshake::read returned
    \* ---- length-prefixed lists (parse_encode.rs)
    ls_tag,           \* the list type
    ls_items,         \* the items the peer encoded into the region, in order
    ls_region,        \* the bytes of the declared region
    ls_pc,            \* "build" | "parsed"
    ls_result,        \* what the list's parse returned
    \* ---- encoding into a bounded write buffer
    enc_cb,           \* the CryptoBuffer
    enc_what,         \* what was encoded
    enc_pc,           \* "fill" | "done"
    enc_before,       \* the buffer's position before the encode call
    enc_result,       \* what encode returned
    cd_in,            \* codec: the function under test and its input
    cd_pc,            \* codec: "input", "applied", "returned"
    cd_out,           \* codec: what the function returned, and its way back
    \* ---- an established connection and its errors
    cn_state,         \* "CONNECTED" | "TERMINAL"
    cn_error,         \* the cached error, "none" before the first one
    cn_calls,         \* the calls made so far and what each returned
    \* ---- the transcript hash across records sent and received (record.rs)
    tr_transcript,    \* the running transcript hash
    tr_ops,           \* the records sent and received, with the hash around each
    \* ---- the loops over a declared region, one iteration at a time
    it_loop,          \* the loop: list validation of an item type, or parse_vector
    it_buf,           \* the cursor over the declared region
    it_n,             \* the iterations run so far
    it_pc,            \* "run" | "ok" | "err"
    it_kept           \* parse_vector: the extensions pushed so far

pskVars == <<psk_identities, psk_binders, psk_pc, psk_shape, psk_wire, psk_result>>
recVars == <<rec_epoch, rec_out>>
extVars == <<ext_group, ext_cap, ext_items, ext_pc, ext_result>>
rdVars == <<rd_buf, rd_digest, rd_sent, rd_log, rd_err>>
clVars == <<cl_state, cl_psk, cl_send, cl_wbuf, cl_transcript, cl_keys, cl_retries,
            cl_cert_requested, cl_log, cl_hellos>>

lbVars == <<lb_state, lb_keys, lb_wire, lb_tx, lb_rx, lb_cfg, lb_hist>>
rcvVars == <<rcv_header, rcv_data, rcv_pc, rcv_decoded, rcv_record>>
dpVars == <<dp_msg, dp_pc, dp_result>>
lsVars == <<ls_tag, ls_items, ls_region, ls_pc, ls_result>>
encVars == <<enc_cb, enc_what, enc_pc, enc_before, enc_result>>

cdVars == <<cd_in, cd_pc, cd_out>>

cnVars == <<cn_state, cn_error, cn_calls>>

trVars == <<tr_transcript, tr_ops>>

itVars == <<it_loop, it_buf, it_n, it_pc, it_kept>>

vars == <<pskVars, recVars, extVars, rdVars, clVars, lbVars, rcvVars,
        dpVars, lsVars, encVars, cdVars, cnVars, trVars, itVars>>

\* The parts of the state a specification does not use stay at these values.
PskIdle ==
    /\ psk_identities = <<>> /\ psk_binders = <<>> /\ psk_pc = "idle"
    /\ psk_shape = "none" /\ psk_wire = <<>> /\ psk_result = <<>>
RecIdle == rec_epoch = "idle" /\ rec_out = <<>>
ExtIdle ==
    /\ ext_group = "none" /\ ext_cap = 0 /\ ext_items = <<>>
    /\ ext_pc = "idle" /\ ext_result = <<>>
RdIdle ==
    /\ rd_buf = <<>> /\ rd_digest = <<>> /\ rd_sent = <<>>
    /\ rd_log = <<>> /\ rd_err = "idle"
ClIdle ==
    /\ cl_state = "idle" /\ cl_psk = FALSE /\ cl_send = "idle" /\ cl_wbuf = <<>>
    /\ cl_transcript = <<>> /\ cl_keys = "none" /\ cl_retries = 0
    /\ cl_cert_requested = FALSE /\ cl_log = <<>> /\ cl_hellos = <<>>

LbIdle ==
    /\ lb_state = "idle" /\ lb_keys = <<>> /\ lb_wire = <<>> /\ lb_tx = <<>>
    /\ lb_rx = <<>> /\ lb_cfg = <<>> /\ lb_hist = <<>>
RcvIdle ==
    /\ rcv_header = <<>> /\ rcv_data = <<>> /\ rcv_pc = "idle"
    /\ rcv_decoded = <<>> /\ rcv_record = <<>>
DpIdle == dp_msg = <<>> /\ dp_pc = "idle" /\ dp_result = <<>>
LsIdle ==
    /\ ls_tag = "none" /\ ls_items = <<>> /\ ls_region = <<>>
    /\ ls_pc = "idle" /\ ls_result = <<>>
EncIdle ==
    /\ enc_cb = <<>> /\ enc_what = <<>> /\ enc_pc = "idle"
    /\ enc_before = 0 /\ enc_result = <<>>
CdIdle ==
    /\ cd_in = <<>> /\ cd_pc = "idle" /\ cd_out = <<>>
CnIdle ==
    /\ cn_state = "idle" /\ cn_error = "none" /\ cn_calls = <<>>
TrIdle ==
    /\ tr_transcript = <<>> /\ tr_ops = <<>>
ItIdle ==
    /\ it_loop = <<>> /\ it_buf = <<>> /\ it_n = 0 /\ it_pc = "idle" /\ it_kept = 0

notPsk == <<recVars, extVars, rdVars, clVars, lbVars, rcvVars,
        dpVars, lsVars, encVars, cdVars, cnVars, trVars, itVars>>
notRec == <<pskVars, extVars, rdVars, clVars, lbVars, rcvVars,
        dpVars, lsVars, encVars, cdVars, cnVars, trVars, itVars>>
notExt == <<pskVars, recVars, rdVars, clVars, lbVars, rcvVars,
        dpVars, lsVars, encVars, cdVars, cnVars, trVars, itVars>>
notRd == <<pskVars, recVars, extVars, clVars, lbVars, rcvVars,
        dpVars, lsVars, encVars, cdVars, cnVars, trVars, itVars>>
notCl == <<pskVars, recVars, extVars, rdVars, lbVars, rcvVars,
        dpVars, lsVars, encVars, cdVars, cnVars, trVars, itVars>>
notLb == <<pskVars, recVars, extVars, rdVars, clVars, rcvVars,
        dpVars, lsVars, encVars, cdVars, cnVars, trVars, itVars>>
notRcv == <<pskVars, recVars, extVars, rdVars, clVars, lbVars,
        dpVars, lsVars, encVars, cdVars, cnVars, trVars, itVars>>
notDp == <<pskVars, recVars, extVars, rdVars, clVars, lbVars,
        rcvVars, lsVars, encVars, cdVars, cnVars, trVars, itVars>>
notLs == <<pskVars, recVars, extVars, rdVars, clVars, lbVars,
        rcvVars, dpVars, encVars, cdVars, cnVars, trVars, itVars>>
notEnc == <<pskVars, recVars, extVars, rdVars, clVars, lbVars,
        rcvVars, dpVars, lsVars, cdVars, cnVars, trVars, itVars>>
notCd == <<pskVars, recVars, extVars, rdVars, clVars, lbVars,
        rcvVars, dpVars, lsVars, encVars, cnVars, trVars, itVars>>
notCn == <<pskVars, recVars, extVars, rdVars, clVars, lbVars,
        rcvVars, dpVars, lsVars, encVars, cdVars, trVars, itVars>>
notTr == <<pskVars, recVars, extVars, rdVars, clVars, lbVars,
        rcvVars, dpVars, lsVars, encVars, cdVars, cnVars, itVars>>
notIt == <<pskVars, recVars, extVars, rdVars, clVars, lbVars,
        rcvVars, dpVars, lsVars, encVars, cdVars, cnVars, trVars>>

(***************************************************************************)
(* Bounds of the model.                                                    *)
(***************************************************************************)
MaxIdentities == 2
MaxBinders == 3
MaxBinderLen == 1
MaxRecords == 4
MaxExts == 3
MaxExtCap == 2
MaxRdMsgs == 3
MaxMsgsPerRecord == 2
MaxHelloRetries == 1
MaxChunk == 4
MaxListItems == 2
MaxCapacity == 10
MaxLoopExts == 2
MaxRegion == 4
MaxTranscriptOps == 2
MaxCalls == 4
MaxKeyLen == 3

(***************************************************************************)
(* Sequence helpers.                                                       *)
(***************************************************************************)
SeqsUpTo(S, lo, hi) == UNION {[1..n -> S] : n \in lo..hi}

RECURSIVE Concat(_)
Concat(ss) == IF ss = <<>> THEN <<>> ELSE Head(ss) \o Concat(Tail(ss))

Zeros(n) == [i \in 1..n |-> 0]

U8BE(n) == <<n % 256>>
U16BE(n) == <<(n \div 256) % 256, n % 256>>
U24BE(n) == <<(n \div 65536) % 256, (n \div 256) % 256, n % 256>>
U32BE(n) == <<(n \div 16777216) % 256, (n \div 65536) % 256, (n \div 256) % 256, n % 256>>

(***************************************************************************)
(* ParseBuffer: a cursor (buffer, pos) over borrowed bytes.  Every call    *)
(* returns a result record: ok, err, the value read and the buffer after   *)
(* the call.  A failed read leaves the cursor where it was.                *)
(***************************************************************************)
ParseBuffer_new(bytes) == [buffer |-> bytes, pos |-> 0]

\* `let x = value;` : the value is computed once and named in what follows.
Let(value, In(_)) == CHOOSE result \in {In(bound) : bound \in {value}} : TRUE

POk(v, pb) == [ok |-> TRUE, err |-> "", val |-> v, buf |-> pb]
PErr(e, pb) == [ok |-> FALSE, err |-> e, val |-> <<>>, buf |-> pb]

remaining(pb) == Len(pb.buffer) - pb.pos
is_empty(pb) == pb.pos = Len(pb.buffer)
offset(pb) == pb.pos
as_slice(pb) == pb.buffer

Advance(pb, n) == [pb EXCEPT !.pos = @ + n]
ByteAt(pb, i) == pb.buffer[pb.pos + i]

read_u8(pb) ==
    IF pb.pos + 1 <= Len(pb.buffer)
    THEN POk(ByteAt(pb, 1), Advance(pb, 1))
    ELSE PErr("InsufficientSpace", pb)

read_u16(pb) ==
    IF pb.pos + 2 <= Len(pb.buffer)
    THEN POk(ByteAt(pb, 1) * 256 + ByteAt(pb, 2), Advance(pb, 2))
    ELSE PErr("InsufficientSpace", pb)

read_u24(pb) ==
    IF pb.pos + 3 <= Len(pb.buffer)
    THEN POk(ByteAt(pb, 1) * 65536 + ByteAt(pb, 2) * 256 + ByteAt(pb, 3), Advance(pb, 3))
    ELSE PErr("InsufficientSpace", pb)

read_u32(pb) ==
    IF pb.pos + 4 <= Len(pb.buffer)
    THEN POk(ByteAt(pb, 1) * 16777216 + ByteAt(pb, 2) * 65536
               + ByteAt(pb, 3) * 256 + ByteAt(pb, 4), Advance(pb, 4))
    ELSE PErr("InsufficientSpace", pb)

\* slice(n): a sub-buffer of the next n bytes with its own pos; the parent advances by n.
slice(pb, n) ==
    IF pb.pos + n <= Len(pb.buffer)
    THEN POk(ParseBuffer_new(SubSeq(pb.buffer, pb.pos + 1, pb.pos + n)), Advance(pb, n))
    ELSE PErr("InsufficientSpace", pb)

\* fill(dest): copies n = dest.len() bytes out and advances.
fill(pb, n) ==
    IF pb.pos + n <= Len(pb.buffer)
    THEN POk(SubSeq(pb.buffer, pb.pos + 1, pb.pos + n), Advance(pb, n))
    ELSE PErr("InsufficientSpace", pb)

(***************************************************************************)
(* CryptoBuffer, write side: an encoder is the sequence of bytes it        *)
(* appends.  with_uN_length reserves the prefix, runs the body and         *)
(* back-patches the big-endian length of the body.                         *)
(***************************************************************************)
with_u8_length(body) == U8BE(Len(body)) \o body
with_u16_length(body) == U16BE(Len(body)) \o body
with_u24_length(body) == U24BE(Len(body)) \o body

(***************************************************************************)
(* parse_encode.rs: SliceU8, ZerocopyList and the parse_encode_list!       *)
(* wrappers.  An item type is named by a tag; Item_parse dispatches to the *)
(* item's Parse implementation.                                            *)
(***************************************************************************)
SliceU8_parse(pb) ==
    Let(read_u8(pb), LAMBDA len :
    IF ~len.ok THEN PErr(len.err, len.buf)
    ELSE Let(slice(len.buf, len.val), LAMBDA s :
         IF ~s.ok THEN PErr(s.err, s.buf)
         ELSE POk(as_slice(s.val), s.buf)))

SliceU8_encode(bytes) == with_u8_length(bytes)

\* pre_shared_key.rs: PskIdentity = identity<u16 length> || obfuscated_ticket_age: u32
PskIdentity_parse(pb) ==
    Let(read_u16(pb), LAMBDA len :
    IF ~len.ok THEN PErr(len.err, len.buf)
    ELSE Let(slice(len.buf, len.val), LAMBDA s :
         IF ~s.ok THEN PErr(s.err, s.buf)
         ELSE Let(read_u32(s.buf), LAMBDA age :
              IF ~age.ok THEN PErr(age.err, age.buf)
              ELSE POk([identity |-> as_slice(s.val),
                        obfuscated_ticket_age |-> age.val], age.buf))))

PskIdentity_encode(id) ==
    with_u16_length(id.identity) \o U32BE(id.obfuscated_ticket_age)

\* supported_groups.rs: the thirteen NamedGroup code points
NamedGroupCodes ==
    {23, 24, 25, 29, 30, 256, 257, 258, 259, 260, 4587, 4588, 4589}

NamedGroup_parse(pb) ==
    Let(read_u16(pb), LAMBDA v :
    IF ~v.ok THEN PErr(v.err, v.buf)
    ELSE CASE v.val = 23 -> POk("Secp256r1", v.buf)
           [] v.val = 24 -> POk("Secp384r1", v.buf)
           [] v.val = 25 -> POk("Secp521r1", v.buf)
           [] v.val = 29 -> POk("X25519", v.buf)
           [] v.val = 30 -> POk("X448", v.buf)
           [] v.val = 256 -> POk("Ffdhe2048", v.buf)
           [] v.val = 257 -> POk("Ffdhe3072", v.buf)
           [] v.val = 258 -> POk("Ffdhe4096", v.buf)
           [] v.val = 259 -> POk("Ffdhe6144", v.buf)
           [] v.val = 260 -> POk("Ffdhe8192", v.buf)
           [] v.val = 4587 -> POk("SecP256r1MLKEM768", v.buf)
           [] v.val = 4588 -> POk("X25519MLKEM768", v.buf)
           [] v.val = 4589 -> POk("SecP384r1MLKEM1024", v.buf)
           [] OTHER -> PErr("InvalidData", v.buf))

\* the code points of the two 768 hybrids taken for each other
NamedGroup_as_u16_swapped(group) ==
    CASE group = "Secp256r1" -> 23
      [] group = "Secp384r1" -> 24
      [] group = "Secp521r1" -> 25
      [] group = "X25519" -> 29
      [] group = "X448" -> 30
      [] group = "Ffdhe2048" -> 256
      [] group = "Ffdhe3072" -> 257
      [] group = "Ffdhe4096" -> 258
      [] group = "Ffdhe6144" -> 259
      [] group = "Ffdhe8192" -> 260
      [] group = "SecP256r1MLKEM768" -> 4588
      [] group = "X25519MLKEM768" -> 4587
      [] group = "SecP384r1MLKEM1024" -> 4589

NamedGroup_as_u16(group) ==
    CASE group = "Secp256r1" -> 23
      [] group = "Secp384r1" -> 24
      [] group = "Secp521r1" -> 25
      [] group = "X25519" -> 29
      [] group = "X448" -> 30
      [] group = "Ffdhe2048" -> 256
      [] group = "Ffdhe3072" -> 257
      [] group = "Ffdhe4096" -> 258
      [] group = "Ffdhe6144" -> 259
      [] group = "Ffdhe8192" -> 260
      [] group = "SecP256r1MLKEM768" -> 4587
      [] group = "X25519MLKEM768" -> 4588
      [] group = "SecP384r1MLKEM1024" -> 4589

NamedGroup_encode(group) == U16BE(NamedGroup_as_u16(group))

\* supported_versions.rs: ProtocolVersion(u16)
ProtocolVersion_parse(pb) == read_u16(pb)

\* a parse that looks at the lowest bit only
PskKeyExchangeMode_parse_low_bit(pb) ==
    Let(read_u8(pb), LAMBDA v :
    IF ~v.ok THEN PErr(v.err, v.buf)
    ELSE CASE v.val % 2 = 0 -> POk("PskKe", v.buf)
           [] OTHER -> POk("PskDheKe", v.buf))

\* psk_key_exchange_modes.rs
PskKeyExchangeMode_parse(pb) ==
    Let(read_u8(pb), LAMBDA v :
    IF ~v.ok THEN PErr(v.err, v.buf)
    ELSE CASE v.val = 0 -> POk("PskKe", v.buf)
           [] v.val = 1 -> POk("PskDheKe", v.buf)
           [] OTHER -> PErr("InvalidData", v.buf))

\* server_name.rs: NameType, ServerName (the name must be ASCII)
NameType_parse(pb) ==
    Let(read_u8(pb), LAMBDA v :
    IF ~v.ok THEN PErr(v.err, v.buf)
    ELSE IF v.val = 0 THEN POk("HostName", v.buf) ELSE PErr("InvalidData", v.buf))

is_ascii(bytes) == \A i \in 1..Len(bytes) : bytes[i] < 128

ServerName_parse(pb) ==
    Let(NameType_parse(pb), LAMBDA name_type :
    IF ~name_type.ok THEN PErr(name_type.err, name_type.buf)
    ELSE Let(read_u16(name_type.buf), LAMBDA name_len :
    IF ~name_len.ok THEN PErr(name_len.err, name_len.buf)
    ELSE Let(slice(name_len.buf, name_len.val), LAMBDA s :
    IF ~s.ok THEN PErr(s.err, s.buf)
    ELSE IF is_ascii(as_slice(s.val))
         THEN POk([name_type |-> name_type.val, name |-> as_slice(s.val)], s.buf)
         ELSE PErr("InvalidData", s.buf))))

\* a parse that takes a key share without key bytes for malformed
KeyShareEntry_parse_nonempty(pb) ==
    Let(NamedGroup_parse(pb), LAMBDA group :
    IF ~group.ok THEN PErr(group.err, group.buf)
    ELSE Let(read_u16(group.buf), LAMBDA opaque_len :
    IF ~opaque_len.ok THEN PErr(opaque_len.err, opaque_len.buf)
    ELSE IF opaque_len.val = 0 THEN PErr("InvalidData", opaque_len.buf)
    ELSE Let(slice(opaque_len.buf, opaque_len.val), LAMBDA opaque :
    IF ~opaque.ok THEN PErr(opaque.err, opaque.buf)
    ELSE POk([group |-> group.val, opaque |-> as_slice(opaque.val)], opaque.buf))))

\* key_share.rs: KeyShareEntry = group || key_exchange<u16 length>
KeyShareEntry_parse(pb) ==
    Let(NamedGroup_parse(pb), LAMBDA group :
    IF ~group.ok THEN PErr(group.err, group.buf)
    ELSE Let(read_u16(group.buf), LAMBDA opaque_len :
    IF ~opaque_len.ok THEN PErr(opaque_len.err, opaque_len.buf)
    ELSE Let(slice(opaque_len.buf, opaque_len.val), LAMBDA opaque :
    IF ~opaque.ok THEN PErr(opaque.err, opaque.buf)
    ELSE POk([group |-> group.val, opaque |-> as_slice(opaque.val)], opaque.buf))))

\* signature_algorithms.rs: SignatureScheme, a u16 of the RFC 8446 registry
SignatureSchemeCodes ==
    {1025, 1281, 1537, 1027, 1283, 1539, 2052, 2053, 2054, 2055, 2056, 2057, 2058, 2059}

SignatureScheme_parse(pb) ==
    Let(read_u16(pb), LAMBDA v :
    IF ~v.ok THEN PErr(v.err, v.buf)
    ELSE IF v.val \in SignatureSchemeCodes THEN POk(v.val, v.buf)
         ELSE PErr("InvalidData", v.buf))

Item_parse(tag, pb) ==
    CASE tag = "SliceU8" -> SliceU8_parse(pb)
      [] tag = "PskIdentity" -> PskIdentity_parse(pb)
      [] tag = "NamedGroup" -> NamedGroup_parse(pb)
      [] tag = "ProtocolVersion" -> ProtocolVersion_parse(pb)
      [] tag = "PskKeyExchangeMode" -> PskKeyExchangeMode_parse(pb)
      [] tag = "ServerName" -> ServerName_parse(pb)
      [] tag = "KeyShareEntry" -> KeyShareEntry_parse(pb)
      [] tag = "SignatureScheme" -> SignatureScheme_parse(pb)

\* The Encode implementations of the item types, onto a buffer with room.
ProtocolVersion_encode(version) == U16BE(version)

PskKeyExchangeMode_encode(mode) ==
    CASE mode = "PskKe" -> <<0>>
      [] mode = "PskDheKe" -> <<1>>

NameType_encode(name_type) ==
    CASE name_type = "HostName" -> <<0>>

\* an encode with a one-byte length in front of the name
ServerName_encode_u8(server_name) ==
    NameType_encode(server_name.name_type) \o with_u8_length(server_name.name)

ServerName_encode(server_name) ==
    NameType_encode(server_name.name_type) \o with_u16_length(server_name.name)

KeyShareEntry_encode(entry) ==
    NamedGroup_encode(entry.group) \o with_u16_length(entry.opaque)

SignatureScheme_encode(scheme) == U16BE(scheme)

Item_encode(tag, item) ==
    CASE tag = "SliceU8" -> SliceU8_encode(item)
      [] tag = "PskIdentity" -> PskIdentity_encode(item)
      [] tag = "NamedGroup" -> NamedGroup_encode(item)
      [] tag = "ProtocolVersion" -> ProtocolVersion_encode(item)
      [] tag = "PskKeyExchangeMode" -> PskKeyExchangeMode_encode(item)
      [] tag = "ServerName" -> ServerName_encode(item)
      [] tag = "KeyShareEntry" -> KeyShareEntry_encode(item)
      [] tag = "SignatureScheme" -> SignatureScheme_encode(item)

\* DynIterList::encode: the items one after the other
DynIterList_encode(tag, items) ==
    Concat([i \in 1..Len(items) |-> Item_encode(tag, items[i])])

\* ZerocopyList::parse: keeps the whole slice and runs the item parser over it
\* until the buffer is empty, failing on the first item that fails.
\* a validation that stops at the first item that fails and keeps the rest
RECURSIVE ZerocopyList_validate_lenient(_, _)
ZerocopyList_validate_lenient(tag, pb) ==
    IF is_empty(pb) THEN POk(<<>>, pb)
    ELSE Let(Item_parse(tag, pb), LAMBDA r :
         IF ~r.ok THEN POk(<<>>, r.buf)
         ELSE ZerocopyList_validate_lenient(tag, r.buf))

RECURSIVE ZerocopyList_validate(_, _)
ZerocopyList_validate(tag, pb) ==
    IF is_empty(pb) THEN POk(<<>>, pb)
    ELSE Let(Item_parse(tag, pb), LAMBDA r :
         IF ~r.ok THEN PErr(r.err, r.buf)
         ELSE ZerocopyList_validate(tag, r.buf))

ZerocopyList_parse(tag, pb) ==
    Let(as_slice(pb), LAMBDA data :
    Let(ZerocopyList_validate(tag, pb), LAMBDA v :
    IF ~v.ok THEN PErr(v.err, v.buf) ELSE POk(data, v.buf)))

\* ZerocopyList::iter: re-parses lazily and ends at the first item that fails.
RECURSIVE ZerocopyList_next(_, _)
ZerocopyList_next(tag, pb) ==
    Let(Item_parse(tag, pb), LAMBDA r :
    IF ~r.ok THEN <<>> ELSE <<r.val>> \o ZerocopyList_next(tag, r.buf))

ZerocopyList_iter(tag, raw) == ZerocopyList_next(tag, ParseBuffer_new(raw))

\* parse_encode_list!(@read $len, buf)
ReadLen(lenw, pb) ==
    CASE lenw = 1 -> read_u8(pb)
      [] lenw = 2 -> read_u16(pb)
      [] lenw = 4 -> read_u32(pb)

\* parse_encode_list!: Parse for $name<Remote>
List_parse(tag, lenw, pb) ==
    Let(ReadLen(lenw, pb), LAMBDA len :
    IF ~len.ok THEN PErr(len.err, len.buf)
    ELSE Let(slice(len.buf, len.val), LAMBDA s :
         IF ~s.ok THEN PErr(s.err, s.buf)
         ELSE Let(ZerocopyList_parse(tag, s.val), LAMBDA l :
              IF ~l.ok THEN PErr(l.err, s.buf) ELSE POk(l.val, s.buf))))

\* parse_encode_list!: Encode for $name<Local>, items already encoded one by one
List_encode(lenw, encodedItems) ==
    CASE lenw = 1 -> with_u8_length(Concat(encodedItems))
      [] lenw = 2 -> with_u16_length(Concat(encodedItems))

\* parse_encode_list!: $name<Remote>::len.  Each round reads a length of the
\* list's own prefix width and skips that many bytes, the result of the skip
\* being dropped; it counts rounds until the read fails.
RECURSIVE List_len_from(_, _)
List_len_from(lenw, pb) ==
    Let(ReadLen(lenw, pb), LAMBDA len :
    IF ~len.ok THEN 0
    ELSE 1 + List_len_from(lenw, slice(len.buf, len.val).buf))

List_len(lenw, raw) == List_len_from(lenw, ParseBuffer_new(raw))

(***************************************************************************)
(* pre_shared_key.rs: PskIdentityList, Binders, PreSharedKeyClientHello.   *)
(***************************************************************************)
PskIdentityList_parse(pb) == List_parse("PskIdentity", 2, pb)
PskIdentityList_encode(ids) ==
    List_encode(2, [i \in 1..Len(ids) |-> PskIdentity_encode(ids[i])])
PskIdentityList_iter(raw) == ZerocopyList_iter("PskIdentity", raw)
PskIdentityList_len(raw) == List_len(2, raw)

Binders_parse(pb) ==
    Let(read_u16(pb), LAMBDA len :
    IF ~len.ok THEN PErr(len.err, len.buf)
    ELSE Let(slice(len.buf, len.val), LAMBDA s :
         IF ~s.ok THEN PErr(s.err, s.buf)
         ELSE Let(ZerocopyList_parse("SliceU8", s.val), LAMBDA l :
              IF ~l.ok THEN PErr(l.err, s.buf) ELSE POk(l.val, s.buf))))

Binders_iter(raw) == ZerocopyList_iter("SliceU8", raw)
Binders_len(raw) == Len(Binders_iter(raw))

\* Binders<Local>: per binder its length byte and that many zero placeholders.
Binders_encode(lens) ==
    with_u16_length(Concat([i \in 1..Len(lens) |-> <<lens[i]>> \o Zeros(lens[i])]))

PreSharedKeyClientHello_parse(pb) ==
    Let(read_u16(pb), LAMBDA l1 :
    IF ~l1.ok THEN PErr(l1.err, l1.buf)
    ELSE Let(slice(l1.buf, l1.val), LAMBDA ident_buf :
    IF ~ident_buf.ok THEN PErr(ident_buf.err, ident_buf.buf)
    ELSE Let(read_u16(ident_buf.buf), LAMBDA l2 :
    IF ~l2.ok THEN PErr(l2.err, l2.buf)
    ELSE Let(slice(l2.buf, l2.val), LAMBDA bind_buf :
    IF ~bind_buf.ok THEN PErr(bind_buf.err, bind_buf.buf)
    ELSE Let(PskIdentityList_parse(ident_buf.val), LAMBDA identities :
    IF ~identities.ok THEN PErr(identities.err, bind_buf.buf)
    ELSE Let(Binders_parse(bind_buf.val), LAMBDA binders :
    IF ~binders.ok THEN PErr(binders.err, bind_buf.buf)
    ELSE IF Binders_len(binders.val) = PskIdentityList_len(identities.val)
         THEN POk([identities |-> identities.val, binders |-> binders.val], bind_buf.buf)
         ELSE PErr("InvalidData", bind_buf.buf)))))))

PreSharedKeyClientHello_encode(ids, lens) ==
    PskIdentityList_encode(ids) \o Binders_encode(lens)

(***************************************************************************)
(* SpecPsk: the PreSharedKeyClientHello codec applied to bounded inputs.   *)
(* An input is a list of identities and a list of binder lengths.  It is   *)
(* either encoded by PreSharedKeyClientHello<Local> and parsed back, or    *)
(* each list is encoded on its own (PskIdentityList, Binders) and the two  *)
(* encodings are framed by the u16 lengths the parser reads first.         *)
(***************************************************************************)
IdentityNames == {<<97>>, <<98, 99>>}
TicketAges == {0, 1}
PskIdentities == [identity : IdentityNames, obfuscated_ticket_age : TicketAges]

PskNoResult == PErr("none", ParseBuffer_new(<<>>))

PskInit ==
    /\ psk_identities \in SeqsUpTo(PskIdentities, 1, MaxIdentities)
    /\ psk_binders \in SeqsUpTo(0..MaxBinderLen, 1, MaxBinders)
    /\ psk_pc = "input"
    /\ psk_shape = "none"
    /\ psk_wire = <<>>
    /\ psk_result = PskNoResult
    /\ RecIdle /\ ExtIdle /\ RdIdle /\ ClIdle
    /\ LbIdle /\ RcvIdle /\ DpIdle /\ LsIdle /\ EncIdle /\ CdIdle /\ CnIdle /\ TrIdle /\ ItIdle

PskEncode ==
    /\ psk_pc = "input"
    /\ psk_wire' = PreSharedKeyClientHello_encode(psk_identities, psk_binders)
    /\ psk_pc' = "encoded"
    /\ UNCHANGED <<psk_identities, psk_binders, psk_shape, psk_result, notPsk>>

PskFrame ==
    /\ psk_pc = "input"
    /\ psk_wire' = with_u16_length(PskIdentityList_encode(psk_identities))
                     \o with_u16_length(Binders_encode(psk_binders))
    /\ psk_pc' = "framed"
    /\ UNCHANGED <<psk_identities, psk_binders, psk_shape, psk_result, notPsk>>

PskParse ==
    /\ psk_pc \in {"encoded", "framed"}
    /\ psk_result' = PreSharedKeyClientHello_parse(ParseBuffer_new(psk_wire))
    /\ psk_shape' = psk_pc
    /\ psk_pc' = "parsed"
    /\ UNCHANGED <<psk_identities, psk_binders, psk_wire, notPsk>>

PskNext == PskEncode \/ PskFrame \/ PskParse

SpecPsk == PskInit /\ [][PskNext]_vars

(***************************************************************************)
(* Claims about the PreSharedKeyClientHello codec.                         *)
(***************************************************************************)
PskParsedIdentities == PskIdentityList_iter(psk_result.val.identities)
PskParsedBinders == Binders_iter(psk_result.val.binders)

\* C7: parsing a PreSharedKeyClientHello made of a well-formed identity list and
\* a well-formed binder list with different numbers of entries yields
\* ParseError::InvalidData.
C7_UnequalCountsInvalidData ==
    (psk_pc = "parsed" /\ psk_shape = "framed"
       /\ Len(psk_identities) # Len(psk_binders))
    => (~psk_result.ok /\ psk_result.err = "InvalidData")

\* C8: for n >= 1 identities and n binder lengths, the bytes written by
\* PreSharedKeyClientHello<Local>::encode are accepted by
\* PreSharedKeyClientHello<Remote>::parse, and the parsed value iterates the same
\* identities and n binders of the given lengths.
C8_PskRoundTrip ==
    (psk_pc = "parsed" /\ psk_shape = "encoded"
       /\ Len(psk_identities) = Len(psk_binders))
    => /\ psk_result.ok
       /\ PskParsedIdentities = psk_identities
       /\ PskParsedBinders = [i \in 1..Len(psk_binders) |-> Zeros(psk_binders[i])]

(***************************************************************************)
(* record.rs: ClientRecordHeader and LocalRecord.                          *)
(* A ClientRecordHeader is <<"Handshake", encrypted>>, <<"Alert",          *)
(* encrypted>> or <<"ApplicationData">>.  A ContentType is named by its    *)
(* variant.                                                                *)
(***************************************************************************)
ContentType_u8(ct) ==
    CASE ct = "Invalid" -> 0
      [] ct = "ChangeCipherSpec" -> 20
      [] ct = "Alert" -> 21
      [] ct = "Handshake" -> 22
      [] ct = "ApplicationData" -> 23

ClientRecordHeaders ==
    {<<"Handshake", e>> : e \in BOOLEAN} \cup {<<"Alert", e>> : e \in BOOLEAN}
        \cup {<<"ApplicationData">>}

is_encrypted(h) ==
    CASE h[1] \in {"Handshake", "Alert"} -> h[2]
      [] h[1] = "ApplicationData" -> TRUE

\* A header that writes the header content type of a clear handshake record
\* for an encrypted one too.
header_content_type_clear(h) ==
    CASE h[1] = "Handshake" -> "Handshake"
      [] h = <<"Alert", FALSE>> -> "ChangeCipherSpec"
      [] h = <<"Alert", TRUE>> \/ h = <<"ApplicationData">> -> "ApplicationData"

header_content_type(h) ==
    CASE h = <<"Handshake", FALSE>> -> "Handshake"
      [] h = <<"Alert", FALSE>> -> "ChangeCipherSpec"
      [] h = <<"Handshake", TRUE>> \/ h = <<"Alert", TRUE>> \/ h = <<"ApplicationData">>
           -> "ApplicationData"

trailer_content_type(h) ==
    CASE h[1] = "Handshake" -> "Handshake"
      [] h[1] = "Alert" -> "Alert"
      [] h = <<"ApplicationData">> -> "ApplicationData"

\* a header that writes the TLS 1.2 version onto every record
version_tls12(h) ==
    CASE h[1] \in {"Handshake", "Alert", "ApplicationData"} -> <<3, 3>>

version(h) ==
    CASE h = <<"Handshake", TRUE>> \/ h = <<"Alert", TRUE>> \/ h = <<"ApplicationData">>
           -> <<3, 3>>
      [] h = <<"Handshake", FALSE>> \/ h = <<"Alert", FALSE>> -> <<3, 1>>

ClientRecordHeader_encode(h) == <<ContentType_u8(header_content_type(h))>> \o version(h)

\* LocalRecord: <<"Handshake", message, encrypted>> or <<"Alert", alert, encrypted>>.
LocalRecord_header(r) ==
    CASE r[1] = "Handshake" -> <<"Handshake", r[3]>>
      [] r[1] = "Alert" -> <<"Alert", r[3]>>

LocalRecord_client_hello == <<"Handshake", "ClientHello", FALSE>>
LocalRecord_close_notify(opened) == <<"Alert", <<"Warning", "CloseNotify">>, opened>>

(***************************************************************************)
(* SpecRecord: the records a client connection emits.  The connection     *)
(* starts in the clear, installs the handshake traffic keys after its      *)
(* ClientHello and the application traffic keys when the handshake is      *)
(* done.  An emitted record is kept with the content type it truly         *)
(* carries, its header, the three header bytes ClientRecordHeader::encode  *)
(* writes and the inner content type appended to an encrypted plaintext.   *)
(***************************************************************************)
Emitted(true_type, h) ==
    [content |-> true_type,
     header |-> h,
     wire |-> ClientRecordHeader_encode(h),
     inner |-> IF is_encrypted(h) THEN <<ContentType_u8(trailer_content_type(h))>> ELSE <<>>]

RecInit ==
    /\ rec_epoch = "clear"
    /\ rec_out = <<>>
    /\ PskIdle /\ ExtIdle /\ RdIdle /\ ClIdle
    /\ LbIdle /\ RcvIdle /\ DpIdle /\ LsIdle /\ EncIdle /\ CdIdle /\ CnIdle /\ TrIdle /\ ItIdle

RecEmit(true_type, h) ==
    /\ Len(rec_out) < MaxRecords
    /\ rec_out' = Append(rec_out, Emitted(true_type, h))

RecSendClientHello ==
    /\ rec_epoch = "clear"
    /\ RecEmit("Handshake", LocalRecord_header(LocalRecord_client_hello))
    /\ UNCHANGED <<rec_epoch, notRec>>

RecInstallHandshakeKeys ==
    /\ rec_epoch = "clear"
    /\ rec_out # <<>>
    /\ rec_epoch' = "handshake"
    /\ UNCHANGED <<rec_out, notRec>>

RecSendHandshake ==
    /\ rec_epoch = "handshake"
    /\ \E m \in {"ClientCert", "ClientCertVerify", "Finished"} :
          RecEmit("Handshake", LocalRecord_header(<<"Handshake", m, TRUE>>))
    /\ UNCHANGED <<rec_epoch, notRec>>

RecInstallApplicationKeys ==
    /\ rec_epoch = "handshake"
    /\ rec_epoch' = "application"
    /\ UNCHANGED <<rec_out, notRec>>

RecSendApplicationData ==
    /\ rec_epoch = "application"
    /\ RecEmit("ApplicationData", <<"ApplicationData">>)
    /\ UNCHANGED <<rec_epoch, notRec>>

\* A fatal alert goes out over the current write epoch.
RecSendAlert ==
    /\ RecEmit("Alert", LocalRecord_header(
                 <<"Alert", <<"Fatal", "IllegalParameter">>, rec_epoch # "clear">>))
    /\ UNCHANGED <<rec_epoch, notRec>>

RecCloseNotify ==
    /\ RecEmit("Alert", LocalRecord_header(LocalRecord_close_notify(rec_epoch = "application")))
    /\ UNCHANGED <<rec_epoch, notRec>>

RecNext ==
    \/ RecSendClientHello
    \/ RecInstallHandshakeKeys
    \/ RecSendHandshake
    \/ RecInstallApplicationKeys
    \/ RecSendApplicationData
    \/ RecSendAlert
    \/ RecCloseNotify

SpecRecord == RecInit /\ [][RecNext]_vars

(***************************************************************************)
(* Claims about outbound record headers.                                   *)
(***************************************************************************)
\* C9: every record sent in the clear carries its true content type in the
\* record header: when is_encrypted() is false, header_content_type() equals
\* trailer_content_type(), Handshake for a handshake record and Alert for an
\* alert record.
C9_ClearHeaderIsTrueType ==
    \A i \in 1..Len(rec_out) :
        ~is_encrypted(rec_out[i].header)
        => /\ header_content_type(rec_out[i].header) = trailer_content_type(rec_out[i].header)
           /\ rec_out[i].wire[1] = ContentType_u8(rec_out[i].content)

\* C10: every encrypted outbound record has application_data (23) as the content
\* type on the wire and its true type as the inner (trailer) content type, and an
\* ApplicationData record is always encrypted.
C10_EncryptedHeaderIsApplicationData ==
    \A i \in 1..Len(rec_out) :
        /\ is_encrypted(rec_out[i].header)
           => /\ rec_out[i].wire[1] = 23
              /\ rec_out[i].inner = <<ContentType_u8(rec_out[i].content)>>
        /\ rec_out[i].content = "ApplicationData" => is_encrypted(rec_out[i].header)

C10_Witness ==
    /\ \E i \in 1..Len(rec_out) : rec_out[i].header = <<"Handshake", TRUE>>
    /\ \E i \in 1..Len(rec_out) : rec_out[i].header = <<"Alert", TRUE>>
    /\ \E i \in 1..Len(rec_out) : rec_out[i].header = <<"ApplicationData">>

\* C29: the legacy_version written in an outbound record header is 0x0301
\* for an unencrypted Handshake or Alert record and 0x0303 for every
\* encrypted record: encrypted Handshake, encrypted Alert, ApplicationData.
C29_LegacyVersionByEncryption ==
    \A i \in 1..Len(rec_out) :
        /\ Len(rec_out[i].wire) = 3
        /\ (rec_out[i].content \in {"Handshake", "Alert"} /\ rec_out[i].inner = <<>>)
             => SubSeq(rec_out[i].wire, 2, 3) = <<3, 1>>
        /\ (rec_out[i].inner # <<>> \/ rec_out[i].content = "ApplicationData")
             => SubSeq(rec_out[i].wire, 2, 3) = <<3, 3>>

C29_Witness ==
    /\ Len(rec_out) >= 3
    /\ rec_out[1].content = "Handshake" /\ rec_out[1].wire = <<22, 3, 1>>
    /\ rec_out[2].content = "Handshake" /\ rec_out[2].wire = <<23, 3, 3>>
    /\ rec_out[3].content = "Alert" /\ rec_out[3].wire = <<23, 3, 3>>

(***************************************************************************)
(* extensions: ExtensionType and the extension bodies.                     *)
(***************************************************************************)
\* ExtensionType: the recognized 16-bit extension types, by IANA code point.
ExtensionTypeName(code) ==
    CASE code = 0 -> "ServerName"
      [] code = 1 -> "MaxFragmentLength"
      [] code = 5 -> "StatusRequest"
      [] code = 10 -> "SupportedGroups"
      [] code = 13 -> "SignatureAlgorithms"
      [] code = 14 -> "UseSrtp"
      [] code = 15 -> "Heartbeat"
      [] code = 16 -> "ApplicationLayerProtocolNegotiation"
      [] code = 18 -> "SignedCertificateTimestamp"
      [] code = 19 -> "ClientCertificateType"
      [] code = 20 -> "ServerCertificateType"
      [] code = 21 -> "Padding"
      [] code = 27 -> "CompressCertificate"
      [] code = 41 -> "PreSharedKey"
      [] code = 42 -> "EarlyData"
      [] code = 43 -> "SupportedVersions"
      [] code = 44 -> "Cookie"
      [] code = 45 -> "PskKeyExchangeModes"
      [] code = 47 -> "CertificateAuthorities"
      [] code = 48 -> "OidFilters"
      [] code = 49 -> "PostHandshakeAuth"
      [] code = 50 -> "SignatureAlgorithmsCert"
      [] code = 51 -> "KeyShare"
      [] OTHER -> "Unknown"

\* ExtensionType::parse: reads the u16 and rejects a code it does not know.
ExtensionType_parse(pb) ==
    Let(read_u16(pb), LAMBDA v :
    IF ~v.ok THEN PErr(v.err, v.buf)
    ELSE IF ExtensionTypeName(v.val) # "Unknown"
         THEN POk(ExtensionTypeName(v.val), v.buf)
         ELSE PErr("InvalidData", v.buf))

\* unimplemented.rs: keeps the extension data as it is
Unimplemented_parse(pb) == POk([data |-> as_slice(pb)], pb)

\* server_name.rs: ServerNameResponse is the empty body
ServerNameResponse_parse(pb) ==
    IF is_empty(pb) THEN POk("ServerNameResponse", pb) ELSE PErr("InvalidData", pb)

\* supported_versions.rs
SupportedVersionsServerHello_parse(pb) ==
    Let(ProtocolVersion_parse(pb), LAMBDA v :
    IF ~v.ok THEN PErr(v.err, v.buf) ELSE POk([selected_version |-> v.val], v.buf))

\* pre_shared_key.rs
PreSharedKeyServerHello_parse(pb) ==
    Let(read_u16(pb), LAMBDA v :
    IF ~v.ok THEN PErr(v.err, v.buf) ELSE POk([selected_identity |-> v.val], v.buf))

\* key_share.rs
KeyShareServerHello_parse(pb) == KeyShareEntry_parse(pb)

KeyShareClientHello_parse(pb) ==
    Let(read_u16(pb), LAMBDA len :
    IF ~len.ok THEN PErr(len.err, len.buf)
    ELSE Let(slice(len.buf, len.val), LAMBDA s :
         IF ~s.ok THEN PErr(s.err, s.buf)
         ELSE Let(ZerocopyList_validate("KeyShareEntry", s.val), LAMBDA v :
              IF ~v.ok THEN PErr(v.err, s.buf)
              ELSE POk([client_shares |-> as_slice(s.val)], s.buf))))

\* max_fragment_length.rs: one byte naming 2^9 .. 2^12
MaxFragmentLength_parse(pb) ==
    Let(read_u8(pb), LAMBDA v :
    IF ~v.ok THEN PErr(v.err, v.buf)
    ELSE IF v.val \in 1..4 THEN POk(v.val, v.buf) ELSE PErr("InvalidData", v.buf))

\* Parse::parse of an extension body, by the body's type.
ExtensionData_parse(dt, pb) ==
    CASE dt = "Unimplemented" -> Unimplemented_parse(pb)
      [] dt = "ServerNameList" -> List_parse("ServerName", 2, pb)
      [] dt = "ServerNameResponse" -> ServerNameResponse_parse(pb)
      [] dt = "SupportedVersionsClientHello" -> List_parse("ProtocolVersion", 1, pb)
      [] dt = "SupportedVersionsServerHello" -> SupportedVersionsServerHello_parse(pb)
      [] dt = "SignatureAlgorithms" -> List_parse("SignatureScheme", 2, pb)
      [] dt = "SignatureAlgorithmsCert" -> List_parse("SignatureScheme", 2, pb)
      [] dt = "SupportedGroups" -> List_parse("NamedGroup", 2, pb)
      [] dt = "KeyShareClientHello" -> KeyShareClientHello_parse(pb)
      [] dt = "KeyShareServerHello" -> KeyShareServerHello_parse(pb)
      [] dt = "PreSharedKeyClientHello" -> PreSharedKeyClientHello_parse(pb)
      [] dt = "PreSharedKeyServerHello" -> PreSharedKeyServerHello_parse(pb)
      [] dt = "PskKeyExchangeModes" -> List_parse("PskKeyExchangeMode", 1, pb)
      [] dt = "MaxFragmentLength" -> MaxFragmentLength_parse(pb)

(***************************************************************************)
(* messages.rs: the per-message extension groups.  A group maps each of    *)
(* its variants to the type of the variant's body.                         *)
(***************************************************************************)
Unimpl(names) == [n \in names |-> "Unimplemented"]

ClientHelloExtension ==
    [n \in {"ServerName", "SupportedVersions", "SignatureAlgorithms", "SupportedGroups",
            "KeyShare", "PreSharedKey", "PskKeyExchangeModes", "SignatureAlgorithmsCert",
            "MaxFragmentLength"} |->
        CASE n = "ServerName" -> "ServerNameList"
          [] n = "SupportedVersions" -> "SupportedVersionsClientHello"
          [] n = "SignatureAlgorithms" -> "SignatureAlgorithms"
          [] n = "SupportedGroups" -> "SupportedGroups"
          [] n = "KeyShare" -> "KeyShareClientHello"
          [] n = "PreSharedKey" -> "PreSharedKeyClientHello"
          [] n = "PskKeyExchangeModes" -> "PskKeyExchangeModes"
          [] n = "SignatureAlgorithmsCert" -> "SignatureAlgorithmsCert"
          [] n = "MaxFragmentLength" -> "MaxFragmentLength"]
    @@ Unimpl({"StatusRequest", "UseSrtp", "Heartbeat",
               "ApplicationLayerProtocolNegotiation", "SignedCertificateTimestamp",
               "ClientCertificateType", "ServerCertificateType", "Padding", "EarlyData",
               "Cookie", "CertificateAuthorities", "OidFilters", "PostHandshakeAuth"})

ServerHelloExtension ==
    [n \in {"KeyShare", "PreSharedKey", "Cookie", "SupportedVersions"} |->
        CASE n = "KeyShare" -> "KeyShareServerHello"
          [] n = "PreSharedKey" -> "PreSharedKeyServerHello"
          [] n = "Cookie" -> "Unimplemented"
          [] n = "SupportedVersions" -> "SupportedVersionsServerHello"]

EncryptedExtensionsExtension ==
    [n \in {"ServerName", "MaxFragmentLength", "SupportedGroups"} |->
        CASE n = "ServerName" -> "ServerNameResponse"
          [] n = "MaxFragmentLength" -> "MaxFragmentLength"
          [] n = "SupportedGroups" -> "SupportedGroups"]
    @@ Unimpl({"UseSrtp", "Heartbeat", "ApplicationLayerProtocolNegotiation",
               "ClientCertificateType", "ServerCertificateType", "EarlyData"})

CertificateRequestExtension ==
    [n \in {"SignatureAlgorithms"} |-> "SignatureAlgorithms"]
    @@ Unimpl({"StatusRequest", "SignedCertificateTimestamp", "CertificateAuthorities",
               "OidFilters", "SignatureAlgorithmsCert", "CompressCertificate"})

CertificateExtension == Unimpl({"StatusRequest", "SignedCertificateTimestamp"})

NewSessionTicketExtension == Unimpl({"EarlyData"})

HelloRetryRequestExtension == Unimpl({"KeyShare", "Cookie", "SupportedVersions"})

ExtensionGroups ==
    {"ClientHello", "ServerHello", "EncryptedExtensions", "CertificateRequest",
     "Certificate", "NewSessionTicket", "HelloRetryRequest"}

ExtensionGroup(g) ==
    CASE g = "ClientHello" -> ClientHelloExtension
      [] g = "ServerHello" -> ServerHelloExtension
      [] g = "EncryptedExtensions" -> EncryptedExtensionsExtension
      [] g = "CertificateRequest" -> CertificateRequestExtension
      [] g = "Certificate" -> CertificateExtension
      [] g = "NewSessionTicket" -> NewSessionTicketExtension
      [] g = "HelloRetryRequest" -> HelloRetryRequestExtension

(***************************************************************************)
(* extension_group_macro.rs: parse and parse_vector of a group.  Errors    *)
(* are TlsError values, named by their variant.                            *)
(***************************************************************************)
\* An extension type that failed to parse aborts the message whatever the failure.
MapTypeError_strict(err) == "DecodeError"

\* lines 87-93: the error of a failed ExtensionType::parse
MapTypeError(err) ==
    IF err = "InvalidData" THEN "UnknownExtensionType" ELSE "DecodeError"

\* A recognized type outside the group is reported as an unknown type.
UnexpectedExtensionType_skip(other) == "UnknownExtensionType"

\* lines 105-116: a recognized type that is no variant of the group
UnexpectedExtensionType(other) == "AbortHandshake(Fatal, IllegalParameter)"

\* A parse that hands the body parser the enclosing buffer at the start of
\* the extension data.
Extension_parse_unsliced(g, pb) ==
    Let(ExtensionType_parse(pb), LAMBDA extension_type :
    Let(read_u16(extension_type.buf), LAMBDA data_len :
    IF ~data_len.ok THEN PErr("DecodeError", data_len.buf)
    ELSE IF ~slice(data_len.buf, data_len.val).ok THEN PErr("DecodeError", data_len.buf)
    ELSE IF ~extension_type.ok THEN PErr(MapTypeError(extension_type.err), data_len.buf)
    ELSE IF extension_type.val \in DOMAIN ExtensionGroup(g)
    THEN Let(ExtensionData_parse(ExtensionGroup(g)[extension_type.val], data_len.buf),
             LAMBDA body :
             IF ~body.ok THEN PErr("DecodeError", body.buf)
             ELSE POk([ext |-> extension_type.val, data |-> body.val], body.buf))
    ELSE PErr(UnexpectedExtensionType(extension_type.val), data_len.buf)))

Extension_parse(g, pb) ==
    Let(ExtensionType_parse(pb), LAMBDA extension_type :
    Let(read_u16(extension_type.buf), LAMBDA data_len :
    IF ~data_len.ok THEN PErr("DecodeError", data_len.buf)
    ELSE Let(slice(data_len.buf, data_len.val), LAMBDA ext_data :
    IF ~ext_data.ok THEN PErr("DecodeError", ext_data.buf)
    ELSE IF ~extension_type.ok THEN PErr(MapTypeError(extension_type.err), ext_data.buf)
    ELSE IF extension_type.val \in DOMAIN ExtensionGroup(g)
    THEN Let(ExtensionData_parse(ExtensionGroup(g)[extension_type.val], ext_data.val),
             LAMBDA body :
             IF ~body.ok THEN PErr("DecodeError", ext_data.buf)
             ELSE POk([ext |-> extension_type.val, data |-> body.val], ext_data.buf))
    ELSE PErr(UnexpectedExtensionType(extension_type.val), ext_data.buf))))

\* The ? of a ParseError inside a function returning TlsError.
FromParseError(err) == "DecodeError"

\* A loop that returns what it has when the vector is full.
RECURSIVE parse_vector_loop_truncating(_, _, _, _)
parse_vector_loop_truncating(g, N, ext_buf, extensions) ==
    IF is_empty(ext_buf) \/ Len(extensions) = N THEN POk(extensions, ext_buf)
    ELSE Let(Extension_parse(g, ext_buf), LAMBDA r :
         IF r.ok
         THEN parse_vector_loop_truncating(g, N, r.buf, Append(extensions, r.val))
         ELSE IF r.err = "UnknownExtensionType"
              THEN parse_vector_loop_truncating(g, N, r.buf, extensions)
              ELSE PErr(r.err, r.buf))

RECURSIVE parse_vector_loop(_, _, _, _)
parse_vector_loop(g, N, ext_buf, extensions) ==
    IF is_empty(ext_buf) THEN POk(extensions, ext_buf)
    ELSE Let(Extension_parse(g, ext_buf), LAMBDA r :
         IF r.ok
         THEN IF Len(extensions) < N
              THEN parse_vector_loop(g, N, r.buf, Append(extensions, r.val))
              ELSE PErr("DecodeError", r.buf)
         ELSE IF r.err = "UnknownExtensionType"
              THEN parse_vector_loop(g, N, r.buf, extensions)
              ELSE PErr(r.err, r.buf))

parse_vector(g, N, pb) ==
    Let(read_u16(pb), LAMBDA extensions_len :
    IF ~extensions_len.ok THEN PErr("InvalidExtensionsLength", extensions_len.buf)
    ELSE Let(slice(extensions_len.buf, extensions_len.val), LAMBDA ext_buf :
    IF ~ext_buf.ok THEN PErr(FromParseError(ext_buf.err), ext_buf.buf)
    ELSE Let(parse_vector_loop(g, N, ext_buf.val, <<>>), LAMBDA r :
         IF ~r.ok THEN PErr(r.err, ext_buf.buf) ELSE POk(r.val, ext_buf.buf))))

(***************************************************************************)
(* SpecExt: an extensions block is put together from well-framed           *)
(* extensions and handed to a group's parse or parse_vector.               *)
(***************************************************************************)
\* Extensions a peer may send.  `name` is the extension's name in the IANA
\* registry when this implementation supports the code point, else
\* "Unknown".
ExtItems ==
    { [code |-> 43, name |-> "SupportedVersions", data |-> <<3, 4>>],
      [code |-> 43, name |-> "SupportedVersions", data |-> <<3, 4, 0, 0>>],
      [code |-> 51, name |-> "KeyShare", data |-> <<0, 23, 0, 1, 170>>],
      [code |-> 44, name |-> "Cookie", data |-> <<1, 2>>],
      [code |-> 0, name |-> "ServerName", data |-> <<>>],
      [code |-> 10, name |-> "SupportedGroups", data |-> <<0, 2, 0, 23>>],
      [code |-> 5, name |-> "StatusRequest", data |-> <<1>>],
      [code |-> 42, name |-> "EarlyData", data |-> <<>>],
      [code |-> 27, name |-> "CompressCertificate", data |-> <<>>],
      [code |-> 65281, name |-> "Unknown", data |-> <<0>>],
      [code |-> 2570, name |-> "Unknown", data |-> <<>>] }

\* The wire form of one extension: type, length, data.
ExtItemBytes(it) == U16BE(it.code) \o with_u16_length(it.data)

ExtBlockBytes(items) == Concat([i \in 1..Len(items) |-> ExtItemBytes(items[i])])

ExtNoResult == <<>>

ExtInit ==
    /\ ext_group \in ExtensionGroups
    /\ ext_cap \in 1..MaxExtCap
    /\ ext_items = <<>>
    /\ ext_pc = "build"
    /\ ext_result = ExtNoResult
    /\ PskIdle /\ RecIdle /\ RdIdle /\ ClIdle
    /\ LbIdle /\ RcvIdle /\ DpIdle /\ LsIdle /\ EncIdle /\ CdIdle /\ CnIdle /\ TrIdle /\ ItIdle

\* The peer appends one more extension to the block.
ExtAppend ==
    /\ ext_pc = "build"
    /\ Len(ext_items) < MaxExts
    /\ \E it \in ExtItems : ext_items' = Append(ext_items, it)
    /\ UNCHANGED <<ext_group, ext_cap, ext_pc, ext_result, notExt>>

\* <Group>::parse on the block (it reads the first extension).
ExtParseOne ==
    /\ ext_pc = "build"
    /\ Len(ext_items) >= 1
    /\ ext_result' = Extension_parse(ext_group, ParseBuffer_new(ExtBlockBytes(ext_items)))
    /\ ext_pc' = "parsed_one"
    /\ UNCHANGED <<ext_group, ext_cap, ext_items, notExt>>

\* <Group>::parse_vector::<N> on the length-prefixed block.
ExtParseVector ==
    /\ ext_pc = "build"
    /\ ext_result' = parse_vector(ext_group, ext_cap,
                          ParseBuffer_new(with_u16_length(ExtBlockBytes(ext_items))))
    /\ ext_pc' = "parsed_vector"
    /\ UNCHANGED <<ext_group, ext_cap, ext_items, notExt>>

ExtNext == ExtAppend \/ ExtParseOne \/ ExtParseVector

SpecExt == ExtInit /\ [][ExtNext]_vars

\* What the group's parser makes of one extension on its own.
ExtAlone(it) == Extension_parse(ext_group, ParseBuffer_new(ExtItemBytes(it)))

ExtUnknown(it) == it.name = "Unknown"
ExtPermitted(it) == ~ExtUnknown(it) /\ it.name \in DOMAIN ExtensionGroup(ext_group)
ExtForeign(it) == ~ExtUnknown(it) /\ it.name \notin DOMAIN ExtensionGroup(ext_group)

\* Extension i of the block is unknown, or permitted with a body that parses.
ExtAcceptable(i) ==
    \/ ExtUnknown(ext_items[i])
    \/ ExtPermitted(ext_items[i]) /\ ExtAlone(ext_items[i]).ok

\* The indices below n of the extensions that end up in the result.
ExtKept(n) == {i \in 1..(n - 1) : ~ExtUnknown(ext_items[i])}

RECURSIVE ExtExpected(_)
ExtExpected(items) ==
    IF items = <<>> THEN <<>>
    ELSE IF ExtUnknown(Head(items)) THEN ExtExpected(Tail(items))
         ELSE <<ExtAlone(Head(items)).val>> \o ExtExpected(Tail(items))

\* C5: parse_vector over a block of well-formed extensions that fit the
\* result vector succeeds and consumes the whole block; the extensions of
\* unknown type are absent from the result and the recognized, permitted
\* ones appear in it in wire order.  parse on an extension of unknown type
\* consumes its type, length and data and reports UnknownExtensionType.
C5_UnknownExtensionsSkipped ==
    /\ ( /\ ext_pc = "parsed_vector"
         /\ \A i \in 1..Len(ext_items) : ExtAcceptable(i)
         /\ Cardinality(ExtKept(Len(ext_items) + 1)) <= ext_cap )
       => /\ ext_result.ok
          /\ ext_result.val = ExtExpected(ext_items)
          /\ [i \in 1..Len(ext_result.val) |-> ext_result.val[i].ext]
               = [i \in 1..Len(ext_result.val) |->
                     SelectSeq(ext_items, LAMBDA it : ~ExtUnknown(it))[i].name]
          /\ ext_result.buf.pos = 2 + Len(ExtBlockBytes(ext_items))
    /\ (ext_pc = "parsed_one" /\ ExtUnknown(ext_items[1]))
       => /\ ~ext_result.ok
          /\ ext_result.err = "UnknownExtensionType"
          /\ ext_result.buf.pos = 4 + Len(ext_items[1].data)

\* An unknown extension between two permitted ones was skipped.
C5_Witness ==
    /\ ext_pc = "parsed_vector"
    /\ Len(ext_items) = 3
    /\ ExtPermitted(ext_items[1]) /\ ExtUnknown(ext_items[2]) /\ ExtPermitted(ext_items[3])
    /\ ext_items[1].name # ext_items[3].name
    /\ Len(ext_items[2].data) > 0
    /\ ext_result.ok
    /\ Len(ext_result.val) = 2

\* the bytes the body parser of extension `it` reads when it is handed the
\* extension data alone
ExtBodyRead(it) ==
    offset(ExtensionData_parse(ExtensionGroup(ext_group)[it.name],
                               ParseBuffer_new(it.data)).buf)

\* C34: a single extension parse that returns Ok or UnknownExtensionType
\* advances the enclosing buffer by 4 + extension_length bytes, whatever
\* number of bytes the body parser reads: the body parser sees the
\* extension_length data bytes only, it does not read into the next
\* extension and does not leave the outer cursor inside the current one.
C34_ExtensionAdvancesByDeclaredLength ==
    (ext_pc = "parsed_one"
        /\ (ext_result.ok \/ ext_result.err = "UnknownExtensionType")) =>
        /\ offset(ext_result.buf) = 4 + Len(ext_items[1].data)
        /\ as_slice(ext_result.buf) = ExtBlockBytes(ext_items)
        /\ ext_result.ok => ext_result.val = ExtAlone(ext_items[1]).val
        /\ (ext_result.ok /\ ExtensionGroup(ext_group)[ext_items[1].name] = "Unimplemented")
              => ext_result.val.data.data = ext_items[1].data

\* an extension was accepted whose body parser read fewer bytes than the
\* extension has, with another extension behind it
C34_Witness ==
    /\ ext_pc = "parsed_one"
    /\ ext_result.ok
    /\ Len(ext_items) >= 2
    /\ ExtensionGroup(ext_group)[ext_items[1].name] # "Unimplemented"
    /\ ExtBodyRead(ext_items[1]) < Len(ext_items[1].data)
    /\ offset(ext_result.buf) = 4 + Len(ext_items[1].data)

\* C6: parse on an extension whose type is recognized but is no variant of
\* the group returns AbortHandshake(Fatal, IllegalParameter), and
\* parse_vector returns that error for the whole block when such an
\* extension is reached.
C6_ForeignExtensionAborts ==
    /\ (ext_pc = "parsed_one" /\ ExtForeign(ext_items[1]))
       => /\ ~ext_result.ok
          /\ ext_result.err = "AbortHandshake(Fatal, IllegalParameter)"
    /\ \A n \in 1..Len(ext_items) :
          ( /\ ext_pc = "parsed_vector"
            /\ ExtForeign(ext_items[n])
            /\ \A i \in 1..(n - 1) : ExtAcceptable(i)
            /\ Cardinality(ExtKept(n)) <= ext_cap )
          => /\ ~ext_result.ok
             /\ ext_result.err = "AbortHandshake(Fatal, IllegalParameter)"

\* KeyShare inside EncryptedExtensions, after an extension that was accepted.
C6_Witness ==
    /\ ext_pc = "parsed_vector"
    /\ ext_group = "EncryptedExtensions"
    /\ Len(ext_items) >= 2
    /\ ExtPermitted(ext_items[1])
    /\ ext_items[2].name = "KeyShare"
    /\ ext_result.err = "AbortHandshake(Fatal, IllegalParameter)"

\* C18: parse_vector::<N> returns at most N extensions; when a block
\* holds more than N recognized, permitted, well-formed extensions it fails
\* with DecodeError at the first one that does not fit; the extensions of
\* unknown type take no room, so a block with any number of them and at
\* most N permitted extensions is returned whole.
C18_VectorCapacity ==
    ext_pc = "parsed_vector" =>
        /\ ext_result.ok => Len(ext_result.val) <= ext_cap
        /\ \A n \in 1..Len(ext_items) :
              ( /\ ExtPermitted(ext_items[n]) /\ ExtAlone(ext_items[n]).ok
                /\ \A i \in 1..(n - 1) : ExtAcceptable(i)
                /\ Cardinality(ExtKept(n)) = ext_cap )
              => (~ext_result.ok /\ ext_result.err = "DecodeError")
        /\ ( /\ \A i \in 1..Len(ext_items) : ExtAcceptable(i)
             /\ Cardinality(ExtKept(Len(ext_items) + 1)) <= ext_cap )
           => /\ ext_result.ok
              /\ Len(ext_result.val) = Cardinality(ExtKept(Len(ext_items) + 1))

\* Three permitted extensions met a vector of two.
C18_Witness ==
    /\ ext_pc = "parsed_vector"
    /\ ext_cap = 2
    /\ Len(ext_items) = 3
    /\ \A i \in 1..3 : ExtPermitted(ext_items[i]) /\ ExtAlone(ext_items[i]).ok
    /\ ~ext_result.ok
    /\ ext_result.err = "DecodeError"

(***************************************************************************)
(* The transcript hash.  The state of a digest is the sequence of bytes it *)
(* has absorbed; finalize wraps the absorbed bytes, so that two hashes are *)
(* equal exactly when they are hashes of the same bytes.                   *)
(***************************************************************************)
Digest_new == <<>>
Digest_update(digest, bytes) == digest \o bytes
Digest_clone(digest) == digest
Digest_finalize(digest) == [hash_of |-> digest]

(***************************************************************************)
(* handshake/mod.rs and handshake/remote_hello.rs: the inbound handshake   *)
(* messages.                                                               *)
(***************************************************************************)
HandshakeTypeName(b) ==
    CASE b = 1 -> "ClientHello"
      [] b = 2 -> "ServerHello"
      [] b = 4 -> "NewSessionTicket"
      [] b = 5 -> "EndOfEarlyData"
      [] b = 8 -> "EncryptedExtensions"
      [] b = 11 -> "Certificate"
      [] b = 13 -> "CertificateRequest"
      [] b = 15 -> "CertificateVerify"
      [] b = 20 -> "Finished"
      [] b = 24 -> "KeyUpdate"
      [] b = 254 -> "MessageHash"
      [] OTHER -> "Invalid"

\* A parse that takes every byte for a HandshakeType.
HandshakeType_parse_any(pb) ==
    Let(read_u8(pb), LAMBDA v :
    IF ~v.ok THEN PErr(v.err, v.buf) ELSE POk(HandshakeTypeName(v.val), v.buf))

HandshakeType_parse(pb) ==
    Let(read_u8(pb), LAMBDA v :
    IF ~v.ok THEN PErr(v.err, v.buf)
    ELSE IF HandshakeTypeName(v.val) # "Invalid"
         THEN POk(HandshakeTypeName(v.val), v.buf)
         ELSE PErr("InvalidData", v.buf))

\* type Random = [u8; 32]
RandomLen == 32

\* The cipher suites of TLS 1.3: TLS_AES_128_GCM_SHA256 .. TLS_AES_128_CCM_8_SHA256
CipherSuiteCodes == {4865, 4866, 4867, 4868, 4869}

CipherSuite_parse(pb) ==
    Let(read_u16(pb), LAMBDA v :
    IF ~v.ok THEN PErr(v.err, v.buf)
    ELSE IF v.val \in CipherSuiteCodes THEN POk(v.val, v.buf)
         ELSE PErr("InvalidCipherSuite", v.buf))

parse_session_id(pb) ==
    Let(read_u16(pb), LAMBDA legacy_version :
    IF ~legacy_version.ok THEN PErr("InvalidHandshake", legacy_version.buf)
    ELSE Let(fill(legacy_version.buf, RandomLen), LAMBDA random :
    IF ~random.ok THEN PErr(FromParseError(random.err), random.buf)
    ELSE Let(read_u8(random.buf), LAMBDA session_id_length :
    IF ~session_id_length.ok THEN PErr("InvalidSessionIdLength", session_id_length.buf)
    ELSE Let(slice(session_id_length.buf, session_id_length.val), LAMBDA session_id :
    IF ~session_id.ok THEN PErr("InvalidSessionIdLength", session_id.buf)
    ELSE POk([random |-> random.val, session_id |-> as_slice(session_id.val)],
             session_id.buf)))))

\* RemoteServerHello keeps a Vec<ServerHelloExtension, 4>
ServerHelloExtensionsCapacity == 4

RemoteServerHello_parse(pb) ==
    Let(parse_session_id(pb), LAMBDA session_id :
    IF ~session_id.ok THEN PErr(session_id.err, session_id.buf)
    ELSE Let(CipherSuite_parse(session_id.buf), LAMBDA cipher_suite :
    IF ~cipher_suite.ok THEN PErr("InvalidCipherSuite", cipher_suite.buf)
    ELSE Let(read_u8(cipher_suite.buf), LAMBDA compression :
    IF ~compression.ok THEN PErr(FromParseError(compression.err), compression.buf)
    ELSE Let(parse_vector("ServerHello", ServerHelloExtensionsCapacity, compression.buf),
             LAMBDA extensions :
    IF ~extensions.ok THEN PErr(extensions.err, extensions.buf)
    ELSE POk([type |-> "ServerHello", extensions |-> extensions.val], extensions.buf)))))

\* The hash output size of the cipher suite (SHA-256).
HashLen == 32

\* Finished::parse fills verify_data, one hash output long; the saved hash is
\* still empty.
Finished_parse(pb, content_len) ==
    Let(fill(pb, HashLen), LAMBDA verify :
    IF ~verify.ok THEN PErr(FromParseError(verify.err), verify.buf)
    ELSE POk([type |-> "Finished", verify |-> verify.val, hash |-> "None"], verify.buf))

\* The parsers of EncryptedExtensions, NewSessionTicket, Certificate,
\* CertificateRequest and CertificateVerify bodies.  Each either fails or
\* accepts some number of the bytes that follow the header; which one is
\* the choice `consumed` (-1 for a failure).
OpaqueTypes ==
    {"EncryptedExtensions", "NewSessionTicket", "Certificate",
     "CertificateRequest", "CertificateVerify"}

OpaqueBody_parse(type, pb, consumed) ==
    IF consumed >= 0 /\ consumed <= remaining(pb)
    THEN POk([type |-> type], Advance(pb, consumed))
    ELSE PErr("DecodeError", pb)

RemoteHandshake_parse(pb, consumed) ==
    Let(HandshakeType_parse(pb), LAMBDA handshake_type :
    IF ~handshake_type.ok THEN PErr("InvalidHandshake", handshake_type.buf)
    ELSE Let(read_u24(handshake_type.buf), LAMBDA content_len :
    IF ~content_len.ok THEN PErr("InvalidHandshake", content_len.buf)
    ELSE CASE handshake_type.val = "ServerHello" -> RemoteServerHello_parse(content_len.buf)
           [] handshake_type.val \in OpaqueTypes ->
                OpaqueBody_parse(handshake_type.val, content_len.buf, consumed)
           [] handshake_type.val = "Finished" ->
                Finished_parse(content_len.buf, content_len.val)
           [] OTHER -> PErr("Unimplemented", content_len.buf)))

\* What read returns: the message or the error, the buffer and the digest.
ReadOk(handshake, pb, digest) ==
    [ok |-> TRUE, err |-> "", val |-> handshake, buf |-> pb, digest |-> digest]
ReadErr(err, pb, digest) ==
    [ok |-> FALSE, err |-> err, val |-> <<>>, buf |-> pb, digest |-> digest]

\* A read that saves the hash of a Finished after the digest has absorbed it.
RemoteHandshake_read_late(pb, digest, consumed) ==
    Let(offset(pb), LAMBDA handshake_start :
    Let(RemoteHandshake_parse(pb, consumed), LAMBDA handshake :
    IF ~handshake.ok THEN ReadErr(handshake.err, handshake.buf, digest)
    ELSE Let(offset(handshake.buf), LAMBDA handshake_end :
         Let(Digest_update(digest, SubSeq(as_slice(handshake.buf),
                                          handshake_start + 1, handshake_end)),
             LAMBDA updated :
         ReadOk(IF handshake.val.type = "Finished"
                THEN [handshake.val EXCEPT !.hash = Digest_finalize(Digest_clone(updated))]
                ELSE handshake.val,
                handshake.buf, updated)))))

\* A read that feeds the digest the body of the message without its header.
RemoteHandshake_read_body(pb, digest, consumed) ==
    Let(offset(pb), LAMBDA handshake_start :
    Let(RemoteHandshake_parse(pb, consumed), LAMBDA handshake :
    IF ~handshake.ok THEN ReadErr(handshake.err, handshake.buf, digest)
    ELSE Let(offset(handshake.buf), LAMBDA handshake_end :
         ReadOk(IF handshake.val.type = "Finished"
                THEN [handshake.val EXCEPT !.hash = Digest_finalize(Digest_clone(digest))]
                ELSE handshake.val,
                handshake.buf,
                Digest_update(digest, SubSeq(as_slice(handshake.buf),
                                             handshake_start + 5, handshake_end))))))

\* A read that feeds the digest the bytes the parser went over before it
\* looks at the parser's result.
RemoteHandshake_read_eager(pb, digest, consumed) ==
    Let(offset(pb), LAMBDA handshake_start :
    Let(RemoteHandshake_parse(pb, consumed), LAMBDA handshake :
    Let(Digest_update(digest, SubSeq(as_slice(handshake.buf),
                                     handshake_start + 1, offset(handshake.buf))),
        LAMBDA updated :
    IF ~handshake.ok THEN ReadErr(handshake.err, handshake.buf, updated)
    ELSE ReadOk(IF handshake.val.type = "Finished"
                THEN [handshake.val EXCEPT !.hash = Digest_finalize(Digest_clone(digest))]
                ELSE handshake.val,
                handshake.buf, updated))))

\* RemoteHandshake::read
RemoteHandshake_read(pb, digest, consumed) ==
    Let(offset(pb), LAMBDA handshake_start :
    Let(RemoteHandshake_parse(pb, consumed), LAMBDA handshake :
    IF ~handshake.ok THEN ReadErr(handshake.err, handshake.buf, digest)
    ELSE Let(offset(handshake.buf), LAMBDA handshake_end :
         ReadOk(IF handshake.val.type = "Finished"
                THEN [handshake.val EXCEPT !.hash = Digest_finalize(Digest_clone(digest))]
                ELSE handshake.val,
                handshake.buf,
                Digest_update(digest, SubSeq(as_slice(handshake.buf),
                                             handshake_start + 1, handshake_end))))))

(***************************************************************************)
(* SpecRead: the peer's handshake messages arrive in record payloads; the  *)
(* client reads them one by one with RemoteHandshake::read, keeping one    *)
(* transcript digest over the whole handshake.                             *)
(***************************************************************************)
HandshakeMessage(type, body) == U8BE(type) \o with_u24_length(body)

\* version, random, empty session id, TLS_AES_128_GCM_SHA256, compression 0,
\* supported_versions = TLS 1.3
ServerHelloBody(cipher_suite) ==
    U16BE(771) \o Zeros(RandomLen) \o <<0>> \o U16BE(cipher_suite) \o <<0>>
        \o with_u16_length(U16BE(43) \o with_u16_length(<<3, 4>>))

\* The messages a peer may send, well-formed and not.
RdMessages ==
    { HandshakeMessage(2, ServerHelloBody(4865)),
      HandshakeMessage(2, ServerHelloBody(0)),
      HandshakeMessage(8, <<0, 0>>),
      HandshakeMessage(11, <<0, 0, 0, 0>>),
      HandshakeMessage(15, <<8, 4, 0, 0>>),
      HandshakeMessage(20, [i \in 1..HashLen |-> 7]),
      HandshakeMessage(20, <<7>>),
      HandshakeMessage(24, <<0>>),
      HandshakeMessage(99, <<>>),
      <<11, 0>> }

\* The digest when the first inbound message arrives: the ClientHello is in it.
RdClientHello == HandshakeMessage(1, <<3, 3>>)

\* The outcomes of an opaque body parser that the harness tries.
OpaqueChoices(pb) ==
    LET hdr == read_u24(Advance(pb, 1)) IN
    IF remaining(pb) >= 4 /\ HandshakeTypeName(ByteAt(pb, 1)) \in OpaqueTypes
    THEN {-1} \cup ({0, hdr.val - 1, hdr.val, hdr.val + 1} \cap 0..remaining(hdr.buf))
    ELSE {0}

RdInit ==
    /\ rd_buf = ParseBuffer_new(<<>>)
    /\ rd_digest = Digest_update(Digest_new, RdClientHello)
    /\ rd_sent = <<>>
    /\ rd_log = <<>>
    /\ rd_err = "none"
    /\ PskIdle /\ RecIdle /\ ExtIdle /\ ClIdle
    /\ LbIdle /\ RcvIdle /\ DpIdle /\ LsIdle /\ EncIdle /\ CdIdle /\ CnIdle /\ TrIdle /\ ItIdle

\* A record payload with one or two handshake messages arrives; the reader
\* gets a new ParseBuffer over it.
RdRecord ==
    /\ rd_err = "none"
    /\ is_empty(rd_buf)
    /\ \E msgs \in SeqsUpTo(RdMessages, 1, MaxMsgsPerRecord) :
          /\ Len(rd_sent) + Len(msgs) <= MaxRdMsgs
          /\ rd_buf' = ParseBuffer_new(Concat(msgs))
          /\ rd_sent' = rd_sent \o msgs
    /\ UNCHANGED <<rd_digest, rd_log, rd_err, notRd>>

\* RemoteHandshake::read on the rest of the payload.
RdRead ==
    /\ rd_err = "none"
    /\ ~is_empty(rd_buf)
    /\ \E consumed \in OpaqueChoices(rd_buf) :
          LET r == RemoteHandshake_read(rd_buf, rd_digest, consumed) IN
          /\ rd_buf' = r.buf
          /\ rd_digest' = r.digest
          /\ rd_err' = IF r.ok THEN "none" ELSE r.err
          /\ rd_log' = IF r.ok
                       THEN Append(rd_log, [msg |-> r.val,
                                            start |-> offset(rd_buf),
                                            end |-> offset(r.buf),
                                            payload |-> as_slice(rd_buf),
                                            before |-> rd_digest])
                       ELSE rd_log
    /\ UNCHANGED <<rd_sent, notRd>>

RdNext == RdRecord \/ RdRead

SpecRead == RdInit /\ [][RdNext]_vars

\* The bytes read number i consumed: its payload from start to end.
RdConsumed(i) == SubSeq(rd_log[i].payload, rd_log[i].start + 1, rd_log[i].end)

\* Read number i consumed one message of the peer, as long as its header declares.
RdWholeMessage(i) == i <= Len(rd_sent) /\ RdConsumed(i) = rd_sent[i]

RdFailedRead == rd_err = "none" /\ rd_err' # "none"

\* C32: when RemoteHandshake::read returns an error (unknown or unimplemented
\* handshake type, truncated header, body parse failure) the transcript
\* digest is left as it was: no byte of the failed message is fed to it.
C32_FailedReadKeepsDigest == [][RdFailedRead => rd_digest' = rd_digest]_vars

\* a read failed on a truncated header after two messages were read
C32_Witness ==
    /\ rd_err = "InvalidHandshake"
    /\ Len(rd_log) = 2
    /\ remaining(rd_buf) < 4 /\ ~is_empty(rd_buf)
    /\ rd_digest # RdClientHello

\* C2: the hash saved on a Finished is the finalized digest over the bytes
\* fed before the Finished, without the Finished's own bytes; the running
\* digest goes on from the state before the snapshot and has the Finished
\* bytes in it afterwards.
C2_FinishedHashIsTranscriptBefore ==
    \A i \in 1..Len(rd_log) :
        rd_log[i].msg.type = "Finished" =>
            /\ rd_log[i].msg.hash = Digest_finalize(rd_log[i].before)
            /\ rd_log[i].msg.hash
                 = [hash_of |-> RdClientHello \o Concat([j \in 1..(i - 1) |-> RdConsumed(j)])]
            /\ rd_log[i].msg.hash # Digest_finalize(rd_log[i].before \o RdConsumed(i))
            /\ IF i < Len(rd_log)
               THEN rd_log[i + 1].before = rd_log[i].before \o RdConsumed(i)
               ELSE rd_digest = rd_log[i].before \o RdConsumed(i)

\* A Finished was read after two other messages.
C2_Witness ==
    /\ Len(rd_log) = 3
    /\ rd_log[3].msg.type = "Finished"
    /\ RdWholeMessage(3)
    /\ rd_log[1].msg.type = "ServerHello"
    /\ rd_digest = rd_log[3].before \o rd_sent[3]

(***************************************************************************)
(* The outbound handshake messages: handshake/mod.rs LocalHandshake and    *)
(* record.rs LocalRecord::encode_payload / finish_record.                  *)
(***************************************************************************)
HandshakeTypeCode(type) ==
    CASE type = "ClientHello" -> 1
      [] type = "Certificate" -> 11
      [] type = "CertificateVerify" -> 15
      [] type = "Finished" -> 20

\* LocalHandshake::encode: the type byte, then the body under a u24 length.
LocalHandshake_encode(type, inner) ==
    U8BE(HandshakeTypeCode(type)) \o with_u24_length(inner)

\* LocalRecord::encode_payload appends the handshake message to the buffer.
LocalRecord_encode_payload(buf, type, inner) == buf \o LocalHandshake_encode(type, inner)

\* A keyed MAC of n bytes over data; no byte of a MAC is zero.
RECURSIVE Sum(_)
Sum(bytes) ==
    IF Len(bytes) = 0 THEN 0
    ELSE IF Len(bytes) = 1 THEN bytes[1]
    ELSE Sum(SubSeq(bytes, 1, Len(bytes) \div 2))
           + Sum(SubSeq(bytes, Len(bytes) \div 2 + 1, Len(bytes)))

Mac(key, data, n) == [i \in 1..n |-> 1 + ((key + Sum(data) + Len(data)) % 255)]

BinderKey == 11
ServerFinishedKey == 22
ClientFinishedKey == 33

\* The extensions of a ClientHello: supported_versions = [TLS 1.3], and last
\* the pre_shared_key extension when a PSK is configured.
ClPskIdentities == <<[identity |-> <<97>>, obfuscated_ticket_age |-> 0]>>
ClBinderLens == <<HashLen>>

Extension_encode(code, data) == U16BE(code) \o with_u16_length(data)

ClientHello_extensions(psk) ==
    Extension_encode(43, with_u8_length(U16BE(772)))
      \o (IF psk
          THEN Extension_encode(41, PreSharedKeyClientHello_encode(ClPskIdentities, ClBinderLens))
          ELSE <<>>)

\* ClientHello::encode: legacy_version, random, legacy_session_id,
\* cipher_suites, legacy_compression_methods, extensions.
ClientHello_encode(psk, random) ==
    U16BE(771) \o random \o with_u8_length([i \in 1..32 |-> 9])
      \o with_u16_length(U16BE(4865)) \o with_u8_length(<<0>>)
      \o with_u16_length(ClientHello_extensions(psk))

\* The binder entries are the suffix of the encoded ClientHello.
BindersLen(lens) == Len(Concat([i \in 1..Len(lens) |-> <<lens[i]>> \o Zeros(lens[i])]))

BinderEntries(lens, transcript, prefix) ==
    Concat([i \in 1..Len(lens) |->
              <<lens[i]>> \o Mac(BinderKey, Digest_update(transcript, prefix), lens[i])])

\* What finalize leaves behind: the buffer and the transcript.
Finalized(buf, transcript) == [buf |-> buf, transcript |-> transcript]

\* ClientHello::finalize: computes the binders over the prefix before them,
\* writes them over the placeholders, then feeds the ClientHello to the
\* transcript.
ClientHello_finalize(enc_buf, transcript, psk) ==
    IF psk
    THEN Let(SubSeq(enc_buf, 1, Len(enc_buf) - BindersLen(ClBinderLens)), LAMBDA prefix :
         Let(prefix \o BinderEntries(ClBinderLens, transcript, prefix), LAMBDA completed :
         Finalized(completed, Digest_update(transcript, completed))))
    ELSE Finalized(enc_buf, Digest_update(transcript, enc_buf))

\* A finalize that treats a ClientHello like every other message.
LocalHandshake_finalize_plain(type, buf, transcript, psk) ==
    Finalized(buf, Digest_update(transcript, buf))

\* LocalHandshake::finalize
LocalHandshake_finalize(type, buf, transcript, psk) ==
    IF type = "ClientHello"
    THEN ClientHello_finalize(buf, transcript, psk)
    ELSE Finalized(buf, Digest_update(transcript, buf))

\* LocalHandshake::finalize_encrypted
LocalHandshake_finalize_encrypted(buf, transcript) ==
    Finalized(buf, Digest_update(transcript, SubSeq(buf, 1, Len(buf))))

\* LocalRecord::finish_record, for the record LocalRecord::<kind>(_, encrypted)
LocalRecord_finish_record(kind, type, encrypted, buf, transcript, psk) ==
    IF kind = "Handshake" /\ ~encrypted
    THEN LocalHandshake_finalize(type, buf, transcript, psk)
    ELSE IF kind = "Handshake" /\ encrypted
         THEN LocalHandshake_finalize_encrypted(buf, transcript)
         ELSE Finalized(buf, transcript)

(***************************************************************************)
(* The client handshake driver.                                            *)
(***************************************************************************)
\* SHA-256("HelloRetryRequest"), the random of a HelloRetryRequest
HelloRetryRequestRandom ==
    <<207, 33, 173, 116, 229, 154, 97, 17, 190, 29, 140, 2, 30, 101, 184, 145,
      194, 162, 17, 22, 122, 187, 140, 94, 7, 158, 9, 226, 200, 168, 51, 156>>

\* The random starts after the handshake header and the legacy_version.
IsHelloRetryRequest(msg) ==
    Len(msg) >= 6 + RandomLen /\ SubSeq(msg, 7, 6 + RandomLen) = HelloRetryRequestRandom

\* The hash of a transcript as bytes on the wire.
HashBytes(digest) == [i \in 1..HashLen |-> (Sum(digest) + Len(digest)) % 256]

\* message_hash || 00 00 Hash.length || Hash(ClientHello1)
MessageHash(digest) == <<254>> \o with_u24_length(HashBytes(digest))

\* The MAC of a received Finished is checked over the hash saved on it.
Finished_verify_wrong(finished, key) == TRUE

Finished_verify(finished, key) ==
    finished.verify = Mac(key, finished.hash.hash_of, HashLen)

\* The state that follows when a message of this type has been read, and
\* "ERROR" for a message the state does not expect.
ClientAfter(state, type, cert_requested) ==
    CASE state = "WAIT_SH" /\ type = "ServerHello" -> "WAIT_EE"
      [] state = "WAIT_EE" /\ type = "EncryptedExtensions" -> "WAIT_CERT_CR"
      [] state = "WAIT_CERT_CR" /\ type = "CertificateRequest" /\ ~cert_requested
           -> "WAIT_CERT_CR"
      [] state = "WAIT_CERT_CR" /\ type = "Certificate" -> "WAIT_CV"
      [] state = "WAIT_CV" /\ type = "CertificateVerify" -> "WAIT_FINISHED"
      [] state = "WAIT_FINISHED" /\ type = "Finished" -> "SEND_FIN"
      [] OTHER -> "ERROR"

(***************************************************************************)
(* SpecClient: one client handshake against a peer that may send any       *)
(* message at any time.  Sending is two calls, encode_payload and          *)
(* finish_record; receiving is RemoteHandshake::read followed by the       *)
(* driver's transition.                                                    *)
(***************************************************************************)
ClRandom == [i \in 1..RandomLen |-> 5]

ClServerHello(random) ==
    HandshakeMessage(2, U16BE(771) \o random \o <<0>> \o U16BE(4865) \o <<0>>
                          \o with_u16_length(Extension_encode(43, <<3, 4>>)))

\* The Finished of a peer that holds the same transcript, and a forged one.
ClServerFinished(transcript) == HandshakeMessage(20, Mac(ServerFinishedKey, transcript, HashLen))
ClForgedFinished == HandshakeMessage(20, Zeros(HashLen))

ClServerMessages(transcript) ==
    { ClServerHello(Zeros(RandomLen)),
      ClServerHello(HelloRetryRequestRandom),
      HandshakeMessage(8, <<0, 0>>),
      HandshakeMessage(13, <<0, 0, 0>>),
      HandshakeMessage(11, <<0, 0, 0, 0>>),
      HandshakeMessage(15, <<8, 4, 0, 0>>),
      ClServerFinished(transcript),
      ClForgedFinished,
      HandshakeMessage(24, <<0>>) }

ClInit ==
    /\ cl_state = "START"
    /\ cl_psk \in BOOLEAN
    /\ cl_send = "idle"
    /\ cl_wbuf = <<>>
    /\ cl_transcript = Digest_new
    /\ cl_keys = "none"
    /\ cl_retries = 0
    /\ cl_cert_requested = FALSE
    /\ cl_log = <<>>
    /\ cl_hellos = <<>>
    /\ PskIdle /\ RecIdle /\ ExtIdle /\ RdIdle
    /\ LbIdle /\ RcvIdle /\ DpIdle /\ LsIdle /\ EncIdle /\ CdIdle /\ CnIdle /\ TrIdle /\ ItIdle

\* encode_payload of LocalRecord::client_hello: the first one, or the one
\* that answers a HelloRetryRequest.
ClEncodeClientHello ==
    /\ cl_send = "idle"
    /\ \/ cl_state = "START"
       \/ cl_state = "WAIT_SH" /\ Len(cl_hellos) = cl_retries
    /\ cl_wbuf' = LocalRecord_encode_payload(<<>>, "ClientHello",
                                             ClientHello_encode(cl_psk, ClRandom))
    /\ cl_send' = "encoded"
    /\ UNCHANGED <<cl_state, cl_psk, cl_transcript, cl_keys, cl_retries,
                   cl_cert_requested, cl_log, cl_hellos, notCl>>

\* finish_record of the ClientHello record; the record goes out.
ClFinishClientHello ==
    /\ cl_send = "encoded"
    /\ cl_state \in {"START", "WAIT_SH"}
    /\ LET f == LocalRecord_finish_record("Handshake", "ClientHello", FALSE,
                                          cl_wbuf, cl_transcript, cl_psk) IN
       /\ cl_transcript' = f.transcript
       /\ cl_hellos' = Append(cl_hellos, [encoded |-> cl_wbuf, sent |-> f.buf])
    /\ cl_wbuf' = <<>>
    /\ cl_send' = "idle"
    /\ cl_state' = "WAIT_SH"
    /\ UNCHANGED <<cl_psk, cl_keys, cl_retries, cl_cert_requested, cl_log, notCl>>

ClWaiting ==
    /\ cl_send = "idle"
    /\ cl_state \in {"WAIT_SH", "WAIT_EE", "WAIT_CERT_CR", "WAIT_CV", "WAIT_FINISHED"}
    /\ cl_state = "WAIT_SH" => Len(cl_hellos) = cl_retries + 1

\* RemoteHandshake::read on a record payload that holds the message msg; a
\* body parser outside src/ accepts the declared length or fails.
ClRead(msg, accept) ==
    RemoteHandshake_read(ParseBuffer_new(msg), cl_transcript,
                         IF accept THEN Len(msg) - 4 ELSE -1)

ClLogged(r, msg) ==
    Append(cl_log, [type |-> r.val.type, hrr |-> IsHelloRetryRequest(msg),
                    msg |-> r.val, before |-> cl_transcript, state |-> cl_state])

\* A message is read and it is the one the state expects.
ClRecv(type) ==
    /\ ClWaiting
    /\ \E msg \in ClServerMessages(cl_transcript) :
          LET r == ClRead(msg, TRUE) IN
          /\ r.ok
          /\ r.val.type = type
          /\ ~IsHelloRetryRequest(msg)
          /\ ClientAfter(cl_state, type, cl_cert_requested) # "ERROR"
          /\ type = "Finished" => Finished_verify(r.val, ServerFinishedKey)
          /\ cl_state' = ClientAfter(cl_state, type, cl_cert_requested)
          /\ cl_transcript' = r.digest
          /\ cl_log' = ClLogged(r, msg)
          /\ cl_keys' = IF type = "ServerHello" THEN "handshake" ELSE cl_keys
          /\ cl_cert_requested' = (cl_cert_requested \/ type = "CertificateRequest")
    /\ UNCHANGED <<cl_psk, cl_send, cl_wbuf, cl_retries, cl_hellos, notCl>>

ClRecvServerHello == ClRecv("ServerHello")
ClRecvEncryptedExtensions == ClRecv("EncryptedExtensions")
ClRecvCertificateRequest == ClRecv("CertificateRequest")
ClRecvCertificate == ClRecv("Certificate")
ClRecvCertificateVerify == ClRecv("CertificateVerify")
ClRecvFinished == ClRecv("Finished")

\* A ServerHello with the HelloRetryRequest random: ClientHello1 is replaced
\* in the transcript by its message_hash, and the client stays in WAIT_SH to
\* send the ClientHello again.
ClRecvHelloRetryRequest ==
    /\ ClWaiting
    /\ cl_state = "WAIT_SH"
    /\ cl_retries < MaxHelloRetries
    /\ \E msg \in ClServerMessages(cl_transcript) :
          LET r == ClRead(msg, TRUE) IN
          /\ r.ok
          /\ r.val.type = "ServerHello"
          /\ IsHelloRetryRequest(msg)
          /\ cl_transcript' = Digest_update(Digest_update(Digest_new, MessageHash(cl_transcript)),
                                            msg)
          /\ cl_log' = ClLogged(r, msg)
    /\ cl_retries' = cl_retries + 1
    /\ UNCHANGED <<cl_state, cl_psk, cl_send, cl_wbuf, cl_keys, cl_cert_requested,
                   cl_hellos, notCl>>

\* The read fails, the message is not the one the state expects, the MAC
\* of the Finished is wrong, or one HelloRetryRequest too many: the
\* handshake is over.
ClRecvRejected ==
    /\ ClWaiting
    /\ \E msg \in ClServerMessages(cl_transcript), accept \in BOOLEAN :
          LET r == ClRead(msg, accept) IN
          /\ \/ ~r.ok
             \/ r.ok /\ ~IsHelloRetryRequest(msg) /\ ClientAfter(cl_state, r.val.type, cl_cert_requested) = "ERROR"
             \/ r.ok /\ IsHelloRetryRequest(msg)
                     /\ (cl_state # "WAIT_SH" \/ cl_retries >= MaxHelloRetries)
             \/ r.ok /\ r.val.type = "Finished" /\ ~Finished_verify(r.val, ServerFinishedKey)
          /\ cl_transcript' = r.digest
          /\ cl_log' = IF r.ok THEN ClLogged(r, msg) ELSE cl_log
    /\ cl_state' = "ERROR"
    /\ UNCHANGED <<cl_psk, cl_send, cl_wbuf, cl_keys, cl_retries, cl_cert_requested,
                   cl_hellos, notCl>>

\* encode_payload of the client Finished: its MAC is over the transcript so far.
ClEncodeFinished ==
    /\ cl_send = "idle"
    /\ cl_state = "SEND_FIN"
    /\ cl_wbuf' = LocalRecord_encode_payload(<<>>, "Finished",
                      Mac(ClientFinishedKey, cl_transcript, HashLen))
    /\ cl_send' = "encoded"
    /\ UNCHANGED <<cl_state, cl_psk, cl_transcript, cl_keys, cl_retries,
                   cl_cert_requested, cl_log, cl_hellos, notCl>>

\* finish_record of the encrypted Finished record; the application secrets
\* are derived and both directions rotate.
ClFinishFinished ==
    /\ cl_send = "encoded"
    /\ cl_state = "SEND_FIN"
    /\ cl_transcript' = LocalRecord_finish_record("Handshake", "Finished", TRUE,
                                                   cl_wbuf, cl_transcript, cl_psk).transcript
    /\ cl_wbuf' = <<>>
    /\ cl_send' = "idle"
    /\ cl_keys' = "application"
    /\ cl_state' = "CONNECTED"
    /\ UNCHANGED <<cl_psk, cl_retries, cl_cert_requested, cl_log, cl_hellos, notCl>>

ClNext ==
    \/ ClEncodeClientHello
    \/ ClFinishClientHello
    \/ ClRecvServerHello
    \/ ClRecvHelloRetryRequest
    \/ ClRecvEncryptedExtensions
    \/ ClRecvCertificateRequest
    \/ ClRecvCertificate
    \/ ClRecvCertificateVerify
    \/ ClRecvFinished
    \/ ClRecvRejected
    \/ ClEncodeFinished
    \/ ClFinishFinished

SpecClient == ClInit /\ [][ClNext]_vars

ClientOrder ==
    { <<"START", "WAIT_SH">>, <<"WAIT_SH", "WAIT_EE">>, <<"WAIT_EE", "WAIT_CERT_CR">>,
      <<"WAIT_CERT_CR", "WAIT_CV">>, <<"WAIT_CV", "WAIT_FINISHED">>,
      <<"WAIT_FINISHED", "SEND_FIN">>, <<"SEND_FIN", "CONNECTED">> }

\* The last message the client read.
ClLast == cl_log[Len(cl_log)]

\* The messages read so far that were not rejected, by type.
ClReadTypes(n) == [i \in 1..n |-> cl_log[i].type]

ClFinishedVerified ==
    \E i \in 1..Len(cl_log) :
        /\ cl_log[i].type = "Finished"
        /\ cl_log[i].state = "WAIT_FINISHED"
        /\ cl_log[i].msg.hash = Digest_finalize(cl_log[i].before)
        /\ cl_log[i].msg.verify = Mac(ServerFinishedKey, cl_log[i].before, HashLen)

ClServerHelloParsed ==
    \E i \in 1..Len(cl_log) :
        cl_log[i].type = "ServerHello" /\ ~cl_log[i].hrr /\ cl_log[i].state = "WAIT_SH"

ClStateSafe ==
    /\ (cl_keys = "application" \/ cl_state = "CONNECTED") => ClFinishedVerified
    /\ cl_state = "CONNECTED" => cl_keys = "application"
    /\ cl_keys # "none" => ClServerHelloParsed
    /\ cl_state \in {"START", "WAIT_SH"} => cl_keys = "none"

ClStateStep ==
    cl_state' # cl_state =>
        \/ <<cl_state, cl_state'>> \in ClientOrder
        \/ cl_state' = "ERROR" /\ cl_state \notin {"START", "SEND_FIN", "CONNECTED"}

\* C3: the client's state only ever moves one step along START, WAIT_SH,
\* WAIT_EE, WAIT_CERT_CR, WAIT_CV, WAIT_FINISHED, SEND_FIN, CONNECTED (or
\* stops in the error state); the application secrets and CONNECTED come
\* only after a server Finished was read in WAIT_FINISHED whose MAC is the
\* MAC over the transcript before it, and the handshake secrets only after
\* a ServerHello was read.
C3_ClientStatesInOrder == [](ClStateSafe) /\ [][ClStateStep]_vars

\* A handshake that went through a HelloRetryRequest and a
\* CertificateRequest reached CONNECTED.
C3_Witness ==
    /\ cl_state = "CONNECTED"
    /\ cl_keys = "application"
    /\ cl_retries = 1
    /\ \E i \in 1..Len(cl_log) : cl_log[i].type = "CertificateRequest"

\* How often needle occurs in hay as a run of consecutive bytes.
Occurrences(needle, hay) ==
    Cardinality({i \in 1..(Len(hay) - Len(needle) + 1) :
                    SubSeq(hay, i, i + Len(needle) - 1) = needle})

\* The binder entries of a ClientHello that carries a pre_shared_key.
ClBinderRegion(hello) == SubSeq(hello, Len(hello) - BindersLen(ClBinderLens) + 1, Len(hello))
ClBinderPrefix(hello) == SubSeq(hello, 1, Len(hello) - BindersLen(ClBinderLens))

ClHelloSafe ==
    /\ \A i \in 1..Len(cl_hellos) :
          /\ Len(cl_hellos[i].sent) = Len(cl_hellos[i].encoded)
          /\ cl_psk =>
                /\ ClBinderRegion(cl_hellos[i].encoded) = <<HashLen>> \o Zeros(HashLen)
                /\ ClBinderPrefix(cl_hellos[i].sent) = ClBinderPrefix(cl_hellos[i].encoded)
                /\ \A k \in 2..(1 + HashLen) : ClBinderRegion(cl_hellos[i].sent)[k] # 0
                /\ Occurrences(cl_hellos[i].encoded, cl_transcript) = 0
          /\ ~cl_psk => cl_hellos[i].sent = cl_hellos[i].encoded
    /\ (Len(cl_hellos) >= 1 /\ Len(cl_hellos) = cl_retries + 1) =>
          Occurrences(cl_hellos[Len(cl_hellos)].sent, cl_transcript) = 1
    /\ cl_send = "encoded" /\ cl_state \in {"START", "WAIT_SH"} =>
          Occurrences(cl_wbuf, cl_transcript) = 0

ClHelloStep ==
    /\ (cl_send = "idle" /\ cl_send' = "encoded") => cl_transcript' = cl_transcript
    /\ cl_hellos' # cl_hellos =>
          /\ cl_send = "encoded" /\ cl_send' = "idle"
          /\ cl_hellos'[Len(cl_hellos')].encoded = cl_wbuf
          /\ cl_transcript' = cl_transcript \o cl_hellos'[Len(cl_hellos')].sent
          /\ cl_psk =>
                ClBinderRegion(cl_hellos'[Len(cl_hellos')].sent)
                  = <<HashLen>> \o Mac(BinderKey,
                                       cl_transcript \o ClBinderPrefix(cl_wbuf), HashLen)

\* C4: a ClientHello with a pre_shared_key is encoded with zero
\* placeholders and the transcript is left alone; finish_record then writes
\* the binders, computed over the prefix before them, over the placeholders
\* and feeds the completed ClientHello to the transcript.  The transcript
\* never holds a ClientHello with placeholder binders and holds the
\* ClientHello that was sent exactly once.
C4_ClientHelloFedOnceCompleted == [](ClHelloSafe) /\ [][ClHelloStep]_vars

\* A ClientHello with a pre_shared_key went out with its binders written.
C4_Witness ==
    /\ cl_psk
    /\ cl_state = "WAIT_SH"
    /\ Len(cl_hellos) = 1
    /\ cl_hellos[1].sent # cl_hellos[1].encoded
    /\ cl_transcript = cl_hellos[1].sent

(***************************************************************************)
(* The record protection and the two halves of the key schedule.  A half   *)
(* holds the traffic secret installed for one direction and that           *)
(* direction's record counter.  The AEAD nonce is the iv of the secret     *)
(* XOR the counter, so a record opens only under the secret and the        *)
(* counter value it was sealed with.  The counter has 64 bits; a           *)
(* connection of this model emits far fewer records than that.             *)
(***************************************************************************)
KeySchedule_new == [secret |-> "none", counter |-> 0]

\* A traffic secret is installed with seq = 0.
KeySchedule_install(half, secret) == [secret |-> secret, counter |-> 0]

\* A counter that moves by two for every record.
increment_counter_twice(half) == [half EXCEPT !.counter = @ + 2]

increment_counter(half) == [half EXCEPT !.counter = @ + 1]

\* The traffic secret of a sending side in an epoch.
TrafficSecret(sender, epoch) ==
    CASE sender = "client" /\ epoch = "handshake" -> "client_handshake_traffic_secret"
      [] sender = "server" /\ epoch = "handshake" -> "server_handshake_traffic_secret"
      [] sender = "client" /\ epoch = "application" -> "client_application_traffic_secret_0"
      [] sender = "server" /\ epoch = "application" -> "server_application_traffic_secret_0"

\* A record sealed with the nonce of the next counter value.
Seal_ahead(half, inner, body) ==
    [content_type |-> "application_data", secret |-> half.secret,
     nonce |-> half.counter + 1, inner |-> inner, body |-> body]

\* Sealing under the write half: the wire content type is application_data
\* and the true type travels inside.
Seal(half, inner, body) ==
    [content_type |-> "application_data", secret |-> half.secret,
     nonce |-> half.counter, inner |-> inner, body |-> body]

\* A record sent in the clear carries its true type.
Clear(inner, body) ==
    [content_type |-> inner, secret |-> "none", nonce |-> 0,
     inner |-> inner, body |-> body]

\* Opening under the read half.
Opens(half, rec) ==
    IF half.secret = "none" THEN rec.secret = "none"
    ELSE /\ rec.content_type = "application_data"
         /\ rec.secret = half.secret
         /\ rec.nonce = half.counter

(***************************************************************************)
(* The handshake drivers of the two sides.                                 *)
(***************************************************************************)
Peer(side) == IF side = "client" THEN "server" ELSE "client"

\* The server's states mirror the client's.
ServerAfter(state, type, cert_seen) ==
    CASE state = "WAIT_CH" /\ type = "ClientHello" -> "NEGOTIATED"
      [] state = "WAIT_FLIGHT2" /\ type = "Certificate" /\ ~cert_seen -> "WAIT_FLIGHT2"
      [] state = "WAIT_FLIGHT2" /\ type = "CertificateVerify" /\ cert_seen
           -> "WAIT_FINISHED"
      [] state = "WAIT_FINISHED" /\ type = "Finished" -> "CONNECTED"
      [] OTHER -> "ERROR"

\* The server's first flight.
ServerFlight(cfg) ==
    <<"ServerHello">>
        \o (IF cfg.ccs THEN <<"ChangeCipherSpec">> ELSE <<>>)
        \o <<"EncryptedExtensions">>
        \o (IF cfg.cert_request THEN <<"CertificateRequest">> ELSE <<>>)
        \o <<"Certificate", "CertificateVerify", "Finished">>

\* The client's second flight.
ClientFlight(cert_requested) ==
    (IF cert_requested THEN <<"Certificate", "CertificateVerify">> ELSE <<>>)
        \o <<"Finished">>

\* The state of a side after it read a handshake message: the new state, the
\* certificate flag and the messages it now has to write.
DriverAfterRead(side, st, type, cfg) ==
    IF side = "client"
    THEN LET next == ClientAfter(st.state, type, st.cert) IN
         [state |-> next,
          cert |-> st.cert \/ (type = "CertificateRequest" /\ next # "ERROR"),
          pending |-> IF next = "SEND_FIN" THEN ClientFlight(st.cert) ELSE <<>>]
    ELSE LET next == ServerAfter(st.state, type, st.cert) IN
         [state |-> next,
          cert |-> st.cert \/ (type = "Certificate" /\ next # "ERROR"),
          pending |-> IF next = "NEGOTIATED" THEN ServerFlight(cfg) ELSE <<>>]

\* The halves of a side after it read a handshake message: the client
\* rotates both directions on ServerHello, the server rotates its read
\* direction on the client's Finished.
KeysAfterRead(side, keys, type, next) ==
    IF next = "ERROR" THEN keys
    ELSE IF side = "client" /\ type = "ServerHello"
    THEN [write |-> KeySchedule_install(keys.write, TrafficSecret("client", "handshake")),
          read |-> KeySchedule_install(keys.read, TrafficSecret("server", "handshake"))]
    ELSE IF side = "server" /\ type = "Finished"
    THEN [keys EXCEPT !.read =
              KeySchedule_install(@, TrafficSecret("client", "application"))]
    ELSE keys

\* The state of a side after it wrote a handshake message.
StateAfterWrite(side, st, type, cfg) ==
    LET rest == [st EXCEPT !.pending = Tail(@)] IN
    IF side = "client" /\ type = "ClientHello" THEN [rest EXCEPT !.state = "WAIT_SH"]
    ELSE IF side = "client" /\ type = "Finished" THEN [rest EXCEPT !.state = "CONNECTED"]
    ELSE IF side = "server" /\ type = "Finished"
    THEN [rest EXCEPT !.state = IF cfg.cert_request THEN "WAIT_FLIGHT2"
                                ELSE "WAIT_FINISHED"]
    ELSE rest

\* The halves of a side after it wrote a handshake message: the server
\* rotates both directions after ServerHello and its write direction after
\* its Finished; the client rotates both directions after its Finished.
KeysAfterWrite(side, keys, type) ==
    IF side = "server" /\ type = "ServerHello"
    THEN [write |-> KeySchedule_install(keys.write, TrafficSecret("server", "handshake")),
          read |-> KeySchedule_install(keys.read, TrafficSecret("client", "handshake"))]
    ELSE IF side = "server" /\ type = "Finished"
    THEN [keys EXCEPT !.write =
              KeySchedule_install(@, TrafficSecret("server", "application"))]
    ELSE IF side = "client" /\ type = "Finished"
    THEN [write |-> KeySchedule_install(keys.write, TrafficSecret("client", "application")),
          read |-> KeySchedule_install(keys.read, TrafficSecret("server", "application"))]
    ELSE keys

(***************************************************************************)
(* SpecLoop: a client and a server joined by a reliable in-order           *)
(* transport.  Each side opens the connection; then the client writes      *)
(* "ping" and reads four bytes, the server reads four bytes and writes     *)
(* "pong".  A step of a side writes one record or reads one record.        *)
(***************************************************************************)
Ping == <<112, 105, 110, 103>>
Pong == <<112, 111, 110, 103>>

\* The secrets installed and the records sealed or opened, as history.
Installed(half) == [ev |-> "install", secret |-> half.secret, counter |-> half.counter]
Counted(half) == [ev |-> "record", secret |-> half.secret, counter |-> half.counter]

\* The history of a side after a step: the records the step sealed and
\* opened, then the secrets it installed.
Logged(hist, sealed, opened, before, after) ==
    [write |-> hist.write \o sealed
                 \o (IF after.write.secret # before.write.secret
                     THEN <<Installed(after.write)>> ELSE <<>>),
     read |-> hist.read \o opened
                \o (IF after.read.secret # before.read.secret
                    THEN <<Installed(after.read)>> ELSE <<>>)]

LbInit ==
    /\ lb_state = [side \in {"client", "server"} |->
                      [state |-> "START", cert |-> FALSE, pending |-> <<>>]]
    /\ lb_keys = [side \in {"client", "server"} |->
                     [write |-> KeySchedule_new, read |-> KeySchedule_new]]
    /\ lb_wire = [side \in {"client", "server"} |-> <<>>]
    /\ lb_tx = [side \in {"client", "server"} |-> IF side = "client" THEN Ping ELSE Pong]
    /\ lb_rx = [side \in {"client", "server"} |-> <<>>]
    /\ lb_cfg \in [ccs : BOOLEAN, cert_request : BOOLEAN]
    /\ lb_hist = [side \in {"client", "server"} |-> [write |-> <<>>, read |-> <<>>]]
    /\ PskIdle /\ RecIdle /\ ExtIdle /\ RdIdle /\ ClIdle
    /\ RcvIdle /\ DpIdle /\ LsIdle /\ EncIdle /\ CdIdle /\ CnIdle /\ TrIdle /\ ItIdle

\* open(): the client has its ClientHello to write, the server waits for one.
LbOpen(side) ==
    /\ lb_state[side].state = "START"
    /\ lb_state[side].pending = <<>>
    /\ lb_state' = [lb_state EXCEPT ![side] =
                       IF side = "client" THEN [@ EXCEPT !.pending = <<"ClientHello">>]
                       ELSE [@ EXCEPT !.state = "WAIT_CH"]]
    /\ UNCHANGED <<lb_keys, lb_wire, lb_tx, lb_rx, lb_cfg, lb_hist, notLb>>

\* The next handshake message of the flight goes out as one record.
LbWriteHandshake(side) ==
    /\ lb_state[side].pending # <<>>
    /\ LET type == Head(lb_state[side].pending)
           half == lb_keys[side].write
           sealed == half.secret # "none" /\ type # "ChangeCipherSpec"
           rec == IF type = "ChangeCipherSpec" THEN Clear("change_cipher_spec", <<1>>)
                  ELSE IF sealed THEN Seal(half, "handshake", type)
                  ELSE Clear("handshake", type)
           used == IF sealed THEN [lb_keys[side] EXCEPT !.write = increment_counter(@)]
                   ELSE lb_keys[side]
           after == KeysAfterWrite(side, used, type)
       IN /\ lb_wire' = [lb_wire EXCEPT ![Peer(side)] = Append(@, rec)]
          /\ lb_keys' = [lb_keys EXCEPT ![side] = after]
          /\ lb_state' = [lb_state EXCEPT ![side] = StateAfterWrite(side, @, type, lb_cfg)]
          /\ lb_hist' = [lb_hist EXCEPT ![side] =
                             Logged(@, IF sealed THEN <<Counted(half)>> ELSE <<>>, <<>>,
                                    used, after)]
    /\ UNCHANGED <<lb_tx, lb_rx, lb_cfg, notLb>>

\* write_all: the next bytes of the application go out as one record.  The
\* server writes once it has read its four bytes.
LbWriteData(side) ==
    /\ lb_state[side].state = "CONNECTED"
    /\ lb_tx[side] # <<>>
    /\ side = "server" => lb_rx[side] = Ping
    /\ \E n \in {MaxChunk \div 2, MaxChunk} :
          LET k == IF n <= Len(lb_tx[side]) THEN n ELSE Len(lb_tx[side])
              half == lb_keys[side].write
          IN /\ k >= 1
             /\ lb_wire' = [lb_wire EXCEPT ![Peer(side)] =
                               Append(@, Seal(half, "application_data",
                                              SubSeq(lb_tx[side], 1, k)))]
             /\ lb_tx' = [lb_tx EXCEPT ![side] = SubSeq(@, k + 1, Len(@))]
             /\ lb_keys' = [lb_keys EXCEPT ![side].write = increment_counter(@)]
             /\ lb_hist' = [lb_hist EXCEPT ![side].write = Append(@, Counted(half))]
    /\ UNCHANGED <<lb_state, lb_rx, lb_cfg, notLb>>

\* One record is read from the transport.  A change_cipher_spec record is
\* dropped; any other record is opened under the read half and dispatched
\* on its inner type.  A side reads only when it has nothing left to write.
LbRead(side) ==
    /\ lb_wire[side] # <<>>
    /\ lb_state[side].pending = <<>>
    /\ lb_state[side].state \notin {"START", "ERROR"}
    /\ LET rec == Head(lb_wire[side])
           half == lb_keys[side].read
           counted == half.secret # "none"
           used == IF counted THEN [lb_keys[side] EXCEPT !.read = increment_counter(@)]
                   ELSE lb_keys[side]
       IN /\ lb_wire' = [lb_wire EXCEPT ![side] = Tail(@)]
          /\ IF rec.content_type = "change_cipher_spec"
             THEN UNCHANGED <<lb_state, lb_keys, lb_rx, lb_hist>>
             ELSE IF ~Opens(half, rec)
             THEN /\ lb_state' = [lb_state EXCEPT ![side].state = "ERROR"]
                  /\ UNCHANGED <<lb_keys, lb_rx, lb_hist>>
             ELSE IF rec.inner = "handshake"
             THEN LET st == DriverAfterRead(side, lb_state[side], rec.body, lb_cfg)
                      after == KeysAfterRead(side, used, rec.body, st.state)
                  IN /\ lb_state' = [lb_state EXCEPT ![side] = st]
                     /\ lb_keys' = [lb_keys EXCEPT ![side] = after]
                     /\ lb_hist' = [lb_hist EXCEPT ![side] =
                                        Logged(@, <<>>,
                                               IF counted THEN <<Counted(half)>> ELSE <<>>,
                                               used, after)]
                     /\ UNCHANGED lb_rx
             ELSE IF lb_state[side].state = "CONNECTED"
             THEN /\ lb_rx' = [lb_rx EXCEPT ![side] = @ \o rec.body]
                  /\ lb_keys' = [lb_keys EXCEPT ![side] = used]
                  /\ lb_hist' = [lb_hist EXCEPT ![side].read = Append(@, Counted(half))]
                  /\ UNCHANGED lb_state
             ELSE /\ lb_state' = [lb_state EXCEPT ![side].state = "ERROR"]
                  /\ UNCHANGED <<lb_keys, lb_rx, lb_hist>>
    /\ UNCHANGED <<lb_tx, lb_cfg, notLb>>

LbClient ==
    \/ LbOpen("client")
    \/ LbWriteHandshake("client")
    \/ LbWriteData("client")
    \/ LbRead("client")

LbServer ==
    \/ LbOpen("server")
    \/ LbWriteHandshake("server")
    \/ LbWriteData("server")
    \/ LbRead("server")

LbNext == LbClient \/ LbServer

SpecLoop == LbInit /\ [][LbNext]_vars

\* Each side is a task that is polled until it completes.
SpecLoopLive == SpecLoop /\ WF_vars(LbClient) /\ WF_vars(LbServer)

\* The counter a half must show after these events.
LbCounterAfter(evs) ==
    IF evs = <<>> THEN 0
    ELSE IF evs[Len(evs)].ev = "install" THEN 0
    ELSE evs[Len(evs)].counter + 1

LbSeqSafe ==
    \A side \in {"client", "server"}, dir \in {"write", "read"} :
        LET evs == lb_hist[side][dir] IN
        /\ lb_keys[side][dir].counter = LbCounterAfter(evs)
        /\ lb_keys[side][dir].secret
             = IF evs = <<>> THEN "none" ELSE evs[Len(evs)].secret
        /\ \A i \in 1..Len(evs) :
              /\ evs[i].ev = "install" => evs[i].counter = 0
              /\ evs[i].ev = "record" =>
                    /\ i > 1
                    /\ evs[i].secret = evs[i - 1].secret
                    /\ evs[i].counter = LbCounterAfter(SubSeq(evs, 1, i - 1))

LbSeqStep ==
    \A side \in {"client", "server"}, dir \in {"write", "read"} :
        lb_hist'[side][dir] = lb_hist[side][dir]
            => lb_keys'[side][dir] = lb_keys[side][dir]

\* C11: in each direction of each side the record counter is 0 when a
\* traffic secret has just been installed and is one more than the counter
\* of the last record sealed (write) or opened (read) under that secret
\* otherwise, so the records of a secret are numbered 0, 1, 2, ...; a step
\* that installs nothing and handles no record in a direction leaves that
\* direction's secret and counter as they were.
C11_SequenceNumbersPerDirection == [](LbSeqSafe) /\ [][LbSeqStep]_vars

\* The server has rotated its write direction to the application secret
\* while its read direction stands at the third record of the client's
\* handshake secret.
C11_Witness ==
    /\ lb_keys["server"].write = [secret |-> TrafficSecret("server", "application"),
                                   counter |-> 0]
    /\ lb_keys["server"].read = [secret |-> TrafficSecret("client", "handshake"),
                                  counter |-> 2]
    /\ lb_keys["client"].read.counter > 2

IsPrefix(a, b) == Len(a) <= Len(b) /\ a = SubSeq(b, 1, Len(a))

LbConnected(side) == lb_state[side].state = "CONNECTED"

LbDone ==
    /\ LbConnected("client") /\ LbConnected("server")
    /\ lb_rx["server"] = Ping
    /\ lb_rx["client"] = Pong

\* C12: every run in which both sides keep being polled reaches the state
\* where both have completed open(), the server has read "ping" and the
\* client has read "pong", and stays there; on the way no side fails and
\* the bytes a side has read are always the first bytes its peer wrote.
C12_BothOpenThenPingPong ==
    /\ <>[]LbDone
    /\ [](\A side \in {"client", "server"} : lb_state[side].state # "ERROR")
    /\ [](IsPrefix(lb_rx["server"], Ping) /\ IsPrefix(lb_rx["client"], Pong))

\* Both sides are done after a handshake with a CertificateRequest and a
\* change_cipher_spec record, and "ping" went out in two records.
C12_Witness ==
    /\ LbDone
    /\ lb_cfg.ccs /\ lb_cfg.cert_request
    /\ lb_wire["client"] = <<>> /\ lb_wire["server"] = <<>>
    /\ lb_keys["server"].read.counter = 2
    /\ lb_keys["client"].read.counter = 1

(***************************************************************************)
(* record.rs: RecordHeader and RemoteRecord, the inbound side.             *)
(***************************************************************************)
\* ContentType::of: the content type of a byte, "None" when there is none
ContentType_of(b) ==
    CASE b = 0 -> "Invalid"
      [] b = 20 -> "ChangeCipherSpec"
      [] b = 21 -> "Alert"
      [] b = 22 -> "Handshake"
      [] b = 23 -> "ApplicationData"
      [] OTHER -> "None"

ROk(v) == [ok |-> TRUE, err |-> "", val |-> v]
RErr(e) == [ok |-> FALSE, err |-> e, val |-> <<>>]

\* A decode that takes every five bytes for a header.
RecordHeader_decode_any(header) == ROk([header |-> header])

RecordHeader_decode(header) ==
    IF ContentType_of(header[1]) = "None" THEN RErr("InvalidRecord")
    ELSE ROk([header |-> header])

\* unwrap!(ContentType::of(self.header[0]))
RecordHeader_content_type(h) ==
    IF ContentType_of(h.header[1]) = "None" THEN "panic" ELSE ContentType_of(h.header[1])

RecordHeader_content_length(h) == h.header[4] * 256 + h.header[5]

\* ChangeCipherSpec::read: the payload is the single byte 0x01
ChangeCipherSpec_read(data) ==
    IF data = <<1>> THEN ROk([record |-> "ChangeCipherSpec"]) ELSE RErr("InvalidRecord")

\* Alert::parse: level and description, one byte each
Alert_parse(pb) ==
    Let(read_u8(pb), LAMBDA level :
    IF ~level.ok THEN PErr(FromParseError(level.err), level.buf)
    ELSE IF level.val \notin {1, 2} THEN PErr("DecodeError", level.buf)
    ELSE Let(read_u8(level.buf), LAMBDA description :
    IF ~description.ok THEN PErr(FromParseError(description.err), description.buf)
    ELSE POk([level |-> level.val, description |-> description.val], description.buf)))

\* What decode returns, and the digest it was handed as it leaves it.
Decoded(result, digest) == result @@ [digest |-> digest]

\* A decode that feeds every payload it accepts to the digest.
RemoteRecord_decode_hash_all(header, data, digest, consumed) ==
    IF RecordHeader_content_length(header) # Len(data) THEN Decoded(RErr("panic"), digest)
    ELSE Let(RecordHeader_content_type(header), LAMBDA content_type :
    CASE content_type = "panic" -> Decoded(RErr("panic"), digest)
      [] content_type = "Invalid" -> Decoded(RErr("Unimplemented"), digest)
      [] content_type = "ChangeCipherSpec" ->
           Let(ChangeCipherSpec_read(data), LAMBDA ccs :
           Decoded(ccs, IF ccs.ok THEN Digest_update(digest, data) ELSE digest))
      [] content_type = "Alert" ->
           Let(Alert_parse(ParseBuffer_new(data)), LAMBDA alert :
           IF ~alert.ok THEN Decoded(RErr(alert.err), digest)
           ELSE Decoded(ROk([record |-> "Alert", alert |-> alert.val]),
                        Digest_update(digest, data)))
      [] content_type = "Handshake" ->
           Let(RemoteHandshake_read(ParseBuffer_new(data), digest, consumed),
               LAMBDA handshake :
           IF ~handshake.ok THEN Decoded(RErr(handshake.err), handshake.digest)
           ELSE Decoded(ROk([record |-> "Handshake", handshake |-> handshake.val]),
                        handshake.digest))
      [] content_type = "ApplicationData" ->
           Decoded(ROk([record |-> "ApplicationData", data |-> data, header |-> header]),
                   Digest_update(digest, data)))

\* RemoteRecord::decode.  assert_eq! panics when the payload is not as long
\* as the header says.
RemoteRecord_decode(header, data, digest, consumed) ==
    IF RecordHeader_content_length(header) # Len(data) THEN Decoded(RErr("panic"), digest)
    ELSE Let(RecordHeader_content_type(header), LAMBDA content_type :
    CASE content_type = "panic" -> Decoded(RErr("panic"), digest)
      [] content_type = "Invalid" -> Decoded(RErr("Unimplemented"), digest)
      [] content_type = "ChangeCipherSpec" -> Decoded(ChangeCipherSpec_read(data), digest)
      [] content_type = "Alert" ->
           Let(Alert_parse(ParseBuffer_new(data)), LAMBDA alert :
           IF ~alert.ok THEN Decoded(RErr(alert.err), digest)
           ELSE Decoded(ROk([record |-> "Alert", alert |-> alert.val]), digest))
      [] content_type = "Handshake" ->
           Let(RemoteHandshake_read(ParseBuffer_new(data), digest, consumed),
               LAMBDA handshake :
           IF ~handshake.ok THEN Decoded(RErr(handshake.err), handshake.digest)
           ELSE Decoded(ROk([record |-> "Handshake", handshake |-> handshake.val]),
                        handshake.digest))
      [] content_type = "ApplicationData" ->
           Decoded(ROk([record |-> "ApplicationData", data |-> data, header |-> header]),
                   digest))

(***************************************************************************)
(* SpecRecv: five header bytes arrive and are decoded; the payload of an   *)
(* accepted header is read and the record is decoded.                      *)
(***************************************************************************)
\* The headers a peer may send: defined and undefined content types, both
\* legacy versions, lengths around the payloads below and around 2^14 + 256.
RcvHeaders ==
    { <<t, 3, v, hi, lo>> : t \in {0, 1, 19, 20, 21, 22, 23, 24, 255}, v \in {1, 3},
                            hi \in {0, 64, 65, 255}, lo \in {0, 1, 2, 4, 255} }

\* The payloads that may follow a header.
RcvPayloads ==
    { <<>>, <<0>>, <<1>>, <<2>>, <<1, 0>>, <<2, 40>>, <<3, 0>>, <<23, 23>>,
      <<8, 0, 0, 0>>, <<20, 0, 0, 0>>, <<24, 0, 0, 0>>, <<99, 0, 0, 0>> }

RcvInit ==
    /\ rcv_header = <<>>
    /\ rcv_data = <<>>
    /\ rcv_pc = "wait"
    /\ rcv_decoded = <<>>
    /\ rcv_record = <<>>
    /\ PskIdle /\ RecIdle /\ ExtIdle /\ RdIdle /\ ClIdle
    /\ LbIdle /\ DpIdle /\ LsIdle /\ EncIdle /\ CdIdle /\ CnIdle /\ TrIdle /\ ItIdle

\* RecordHeader::decode on the five bytes read.
RcvHeader ==
    /\ rcv_pc = "wait"
    /\ \E header \in RcvHeaders :
          /\ rcv_header' = header
          /\ rcv_decoded' = RecordHeader_decode(header)
          /\ rcv_pc' = IF RecordHeader_decode(header).ok THEN "header" ELSE "rejected"
    /\ UNCHANGED <<rcv_data, rcv_record, notRcv>>

\* RemoteRecord::decode on the payload, as long as the header says.
RcvPayload ==
    /\ rcv_pc = "header"
    /\ \E data \in RcvPayloads :
          /\ Len(data) = RecordHeader_content_length(rcv_decoded.val)
          /\ rcv_data' = data
          /\ \E consumed \in OpaqueChoices(ParseBuffer_new(data)) :
                rcv_record' = RemoteRecord_decode(rcv_decoded.val, data, Digest_new, consumed)
          /\ rcv_pc' = "decoded"
    /\ UNCHANGED <<rcv_header, rcv_decoded, notRcv>>

RcvNext == RcvHeader \/ RcvPayload

SpecRecv == RcvInit /\ [][RcvNext]_vars

\* The bytes that are content types.
RcvDefinedTypes == {0, 20, 21, 22, 23}

\* C13: RecordHeader::decode fails, with InvalidRecord, exactly on the
\* headers whose first byte is none of invalid(0), change_cipher_spec(20),
\* alert(21), handshake(22), application_data(23); content_type() of a
\* header it returned does not panic; RemoteRecord::decode of a record of
\* content type invalid is an error, and a record it returns is of the
\* content type of the header.
C13_HeaderContentTypeValidated ==
    /\ rcv_pc \in {"header", "rejected", "decoded"} =>
          /\ rcv_decoded.ok <=> rcv_header[1] \in RcvDefinedTypes
          /\ ~rcv_decoded.ok => rcv_decoded.err = "InvalidRecord"
          /\ rcv_decoded.ok => RecordHeader_content_type(rcv_decoded.val) # "panic"
    /\ rcv_pc = "decoded" =>
          /\ rcv_record.err # "panic"
          /\ rcv_header[1] = 0 => ~rcv_record.ok
          /\ rcv_record.ok =>
                rcv_header[1] = ContentType_u8(rcv_record.val.record)

\* A record of content type invalid was decoded into an error.
C13_Witness ==
    /\ rcv_pc = "decoded"
    /\ rcv_header[1] = 0
    /\ Len(rcv_data) = 2
    /\ ~rcv_record.ok
    /\ rcv_record.err = "Unimplemented"

\* C14: a header that RecordHeader::decode returned has a length field of
\* at most 2^14 + 256.
C14_AcceptedLengthWithinLimit ==
    rcv_pc \in {"header", "decoded"} =>
        RecordHeader_content_length(rcv_decoded.val) <= 16384 + 256

(***************************************************************************)
(* SpecDispatch: one record payload with a handshake message arrives and   *)
(* RemoteHandshake::read is called on it.                                  *)
(***************************************************************************)
\* A ServerHello with an empty legacy_session_id_echo.
ServerHelloBytes(random, cipher_suite, compression, extensions) ==
    U16BE(771) \o random \o <<0>> \o U16BE(cipher_suite) \o <<compression>>
        \o with_u16_length(extensions)

\* supported_versions = TLS 1.3 alone, then with a key_share of an entry, a
\* key_share of a selected group only (the form of a HelloRetryRequest) and
\* a cookie.
DpExtensionBlocks ==
    { Extension_encode(43, <<3, 4>>),
      Extension_encode(43, <<3, 4>>) \o Extension_encode(51, <<0, 29, 0, 1, 9>>),
      Extension_encode(43, <<3, 4>>) \o Extension_encode(51, <<0, 23>>),
      Extension_encode(43, <<3, 4>>) \o Extension_encode(44, <<0, 1, 7>>) }

DpOther(bytes) ==
    [kind |-> "other", bytes |-> bytes, random |-> <<>>, cipher_suite |-> 0,
     compression |-> 0, extensions |-> <<>>]

DpTypeBytes == {0, 1, 2, 3, 4, 5, 8, 11, 13, 15, 20, 24, 99, 254}

\* The payloads a peer may send.
DpMessages ==
    { [kind |-> "ServerHello",
       bytes |-> HandshakeMessage(2, ServerHelloBytes(r, c, z, e)),
       random |-> r, cipher_suite |-> c, compression |-> z, extensions |-> e] :
         r \in {Zeros(RandomLen), HelloRetryRequestRandom}, c \in {4865, 4866, 0},
         z \in {0, 1}, e \in DpExtensionBlocks }
    \cup { DpOther(HandshakeMessage(t, body)) :
             t \in DpTypeBytes \ {2}, body \in {<<>>, <<0, 0>>, [i \in 1..HashLen |-> 7]} }
    \cup { DpOther(<<t>> \o rest) : t \in DpTypeBytes, rest \in {<<>>, <<0>>, <<0, 0>>} }
    \cup { DpOther(<<>>), DpOther(HandshakeMessage(2, <<3>>)) }
    \cup { [kind |-> "ServerHello",
             bytes |-> <<2>> \o U24BE(n) \o ServerHelloBytes(Zeros(RandomLen), 4865, 0, e),
             random |-> Zeros(RandomLen), cipher_suite |-> 4865, compression |-> 0,
             extensions |-> e] :
               n \in {0, 1}, e \in {Extension_encode(43, <<3, 4>>)} }
    \cup { [kind |-> "ServerHello",
             bytes |-> HandshakeMessage(2, ServerHelloBytes(Zeros(RandomLen), 4865, 0, e)
                                              \o pad),
             random |-> Zeros(RandomLen), cipher_suite |-> 4865, compression |-> 0,
             extensions |-> e] :
               pad \in {<<0>>, <<0, 0>>}, e \in {Extension_encode(43, <<3, 4>>)} }

DpInit ==
    /\ dp_msg = <<>>
    /\ dp_pc = "wait"
    /\ dp_result = <<>>
    /\ PskIdle /\ RecIdle /\ ExtIdle /\ RdIdle /\ ClIdle
    /\ LbIdle /\ RcvIdle /\ LsIdle /\ EncIdle /\ CdIdle /\ CnIdle /\ TrIdle /\ ItIdle

DpReceive ==
    /\ dp_pc = "wait"
    /\ \E msg \in DpMessages : dp_msg' = msg
    /\ dp_pc' = "received"
    /\ UNCHANGED <<dp_result, notDp>>

DpRead ==
    /\ dp_pc = "received"
    /\ \E consumed \in OpaqueChoices(ParseBuffer_new(dp_msg.bytes)) :
          dp_result' = RemoteHandshake_read(ParseBuffer_new(dp_msg.bytes), Digest_new,
                                            consumed)
    /\ dp_pc' = "read"
    /\ UNCHANGED <<dp_msg, notDp>>

DpNext == DpReceive \/ DpRead

SpecDispatch == DpInit /\ [][DpNext]_vars

\* The type bytes of the messages a client reads, and the variant of each.
DpVariant ==
    (2 :> "ServerHello") @@ (4 :> "NewSessionTicket") @@ (8 :> "EncryptedExtensions")
        @@ (11 :> "Certificate") @@ (13 :> "CertificateRequest")
        @@ (15 :> "CertificateVerify") @@ (20 :> "Finished")

\* client_hello, end_of_early_data, key_update, message_hash
DpUnsupported == {1, 5, 24, 254}

\* C15: a message that RemoteHandshake::read returns is of the variant of
\* its type byte, one of ServerHello, NewSessionTicket, EncryptedExtensions,
\* Certificate, CertificateRequest, CertificateVerify and Finished, and the
\* body of a ServerHello or a Finished is never refused as unimplemented; a
\* message of type ClientHello, EndOfEarlyData, KeyUpdate or MessageHash
\* with its u24 length gives Unimplemented; a payload whose first byte is no
\* HandshakeType, or that ends before the end of the u24 length, gives
\* InvalidHandshake.
C15_InboundDispatch ==
    dp_pc = "read" =>
        LET bytes == dp_msg.bytes IN
        /\ dp_result.ok =>
              /\ bytes[1] \in DOMAIN DpVariant
              /\ dp_result.val.type = DpVariant[bytes[1]]
        /\ (Len(bytes) >= 4 /\ bytes[1] \in {2, 20} /\ ~dp_result.ok)
              => dp_result.err # "Unimplemented"
        /\ (Len(bytes) >= 4 /\ bytes[1] \in DpUnsupported)
              => (~dp_result.ok /\ dp_result.err = "Unimplemented")
        /\ (Len(bytes) < 4 \/ bytes[1] \notin (DOMAIN DpVariant \cup DpUnsupported))
              => (~dp_result.ok /\ dp_result.err = "InvalidHandshake")

\* A CertificateRequest was read into its variant.
C15_Witness ==
    /\ dp_pc = "read"
    /\ Len(dp_msg.bytes) > 4
    /\ dp_msg.bytes[1] = 13
    /\ dp_result.ok
    /\ dp_result.val.type = "CertificateRequest"
    /\ dp_result.buf.pos = Len(dp_msg.bytes)

\* C16: a ServerHello whose random is the HelloRetryRequest value, with the
\* extensions of a HelloRetryRequest, is read, and is read as a
\* HelloRetryRequest, not as a ServerHello.
C16_MagicRandomIsHelloRetryRequest ==
    (dp_pc = "read" /\ dp_msg.kind = "ServerHello"
       /\ dp_msg.random = HelloRetryRequestRandom
       /\ dp_msg.cipher_suite \in CipherSuiteCodes)
    => (dp_result.ok /\ dp_result.val.type # "ServerHello")

\* The cipher_suites of the ClientHello.
DpOffered == {4865}

\* C17: a ServerHello that is read has compression_method 0 and a
\* cipher_suite the ClientHello offered.
C17_CompressionZeroSuiteOffered ==
    (dp_pc = "read" /\ dp_msg.kind = "ServerHello" /\ dp_result.ok)
    => (dp_msg.compression = 0 /\ dp_msg.cipher_suite \in DpOffered)

\* the u24 length a handshake message declares behind its type byte
DpDeclaredLen(bytes) == (bytes[2] * 256 + bytes[3]) * 256 + bytes[4]

\* C30: for every handshake message that RemoteHandshake::read accepts, the
\* number of bytes taken from the buffer and fed to the transcript is 4 plus
\* the u24 length the message header declares; no message whose body parser
\* stops before, or runs past, the declared length is accepted.
C30_ConsumedIsDeclaredLength ==
    (dp_pc = "read" /\ dp_result.ok) =>
        /\ offset(dp_result.buf) = 4 + DpDeclaredLen(dp_msg.bytes)
        /\ dp_result.digest =
               Digest_update(Digest_new,
                             SubSeq(dp_msg.bytes, 1, 4 + DpDeclaredLen(dp_msg.bytes)))

(***************************************************************************)
(* The length-prefixed lists of parse_encode.rs and key_share.rs, read     *)
(* from the wire.  A region is put together from encoded items and from    *)
(* bytes that are no item, prefixed with its length, parsed, and iterated. *)
(***************************************************************************)
LsLists ==
    {[name |-> "SupportedVersionsClientHello", tag |-> "ProtocolVersion", lenw |-> 1],
     [name |-> "PskKeyExchangeModes", tag |-> "PskKeyExchangeMode", lenw |-> 1],
     [name |-> "SupportedGroups", tag |-> "NamedGroup", lenw |-> 2],
     [name |-> "ServerNameList", tag |-> "ServerName", lenw |-> 2],
     [name |-> "PskIdentityList", tag |-> "PskIdentity", lenw |-> 2],
     [name |-> "SignatureAlgorithmsCert", tag |-> "SignatureScheme", lenw |-> 2],
     [name |-> "Binders", tag |-> "SliceU8", lenw |-> 2],
     [name |-> "KeyShareClientHello", tag |-> "KeyShareEntry", lenw |-> 2]}

LsItems(tag) ==
    CASE tag = "ProtocolVersion" -> {772, 771}
      [] tag = "PskKeyExchangeMode" -> {"PskKe", "PskDheKe"}
      [] tag = "NamedGroup" -> {"Secp256r1", "X25519", "SecP256r1MLKEM768"}
      [] tag = "ServerName" ->
           [name_type : {"HostName"}, name : {<<>>, <<97>>, <<97, 98>>}]
      [] tag = "PskIdentity" ->
           [identity : {<<>>, <<7>>}, obfuscated_ticket_age : {0, 258}]
      [] tag = "SliceU8" -> {<<>>, <<1>>, <<1, 2>>}
      [] tag = "KeyShareEntry" ->
           [group : {"Secp256r1", "X25519"}, opaque : {<<>>, <<4>>}]
      [] tag = "SignatureScheme" -> {1027, 2052, 2055}

\* bytes that are not, or not wholly, an item of most of the lists
LsJunk == {<<255>>, <<0>>, <<2, 1>>, <<0, 23, 0>>, <<0, 0, 1, 200>>}

LsInit ==
    /\ ls_tag \in LsLists
    /\ ls_items = <<>>
    /\ ls_region = <<>>
    /\ ls_pc = "build"
    /\ ls_result = <<>>
    /\ PskIdle /\ RecIdle /\ ExtIdle /\ RdIdle /\ ClIdle
    /\ LbIdle /\ RcvIdle /\ DpIdle /\ EncIdle /\ CdIdle /\ CnIdle /\ TrIdle /\ ItIdle

\* DynIterList::encode of one more item
LsAppendItem ==
    /\ ls_pc \in {"build", "dirty"}
    /\ Len(ls_items) < MaxListItems
    /\ \E item \in LsItems(ls_tag.tag) :
         /\ ls_items' = Append(ls_items, item)
         /\ ls_region' = ls_region \o Item_encode(ls_tag.tag, item)
    /\ UNCHANGED <<ls_tag, ls_pc, ls_result, notLs>>

\* the peer writes bytes that no encoder wrote
LsAppendJunk ==
    /\ ls_pc = "build"
    /\ \E junk \in LsJunk : ls_region' = ls_region \o junk
    /\ ls_pc' = "dirty"
    /\ UNCHANGED <<ls_tag, ls_items, ls_result, notLs>>

LsWire ==
    CASE ls_tag.lenw = 1 -> with_u8_length(ls_region)
      [] ls_tag.lenw = 2 -> with_u16_length(ls_region)

LsParsed(name, tag, lenw, pb) ==
    CASE name = "KeyShareClientHello" ->
           Let(KeyShareClientHello_parse(pb), LAMBDA r :
           IF r.ok THEN POk(r.val.client_shares, r.buf) ELSE r)
      [] name = "Binders" -> Binders_parse(pb)
      [] OTHER -> List_parse(tag, lenw, pb)

\* $name<Remote>::parse / KeyShareClientHello::parse on the prefixed region
LsParse ==
    /\ ls_pc \in {"build", "dirty"}
    /\ ls_result' = [parse |-> LsParsed(ls_tag.name, ls_tag.tag, ls_tag.lenw,
                                        ParseBuffer_new(LsWire)),
                     clean |-> ls_pc = "build",
                     items |-> <<>>,
                     len |-> 0]
    /\ ls_pc' = "parsed"
    /\ UNCHANGED <<ls_tag, ls_items, ls_region, notLs>>

\* $name<Remote>::iter / KeyShareClientHello::key_shares, run to its end
LsIter ==
    /\ ls_pc = "parsed"
    /\ ls_result.parse.ok
    /\ ls_result' = [ls_result EXCEPT
                       !.items = ZerocopyList_iter(ls_tag.tag, ls_result.parse.val)]
    /\ ls_pc' = "iterated"
    /\ UNCHANGED <<ls_tag, ls_items, ls_region, notLs>>

\* $name<Remote>::len / Binders<Remote>::len of the parsed list
LsLen ==
    /\ ls_pc = "iterated"
    /\ ls_tag.name # "KeyShareClientHello"
    /\ ls_result' = [ls_result EXCEPT
                       !.len = IF ls_tag.name = "Binders"
                               THEN Binders_len(ls_result.parse.val)
                               ELSE List_len(ls_tag.lenw, ls_result.parse.val)]
    /\ ls_pc' = "counted"
    /\ UNCHANGED <<ls_tag, ls_items, ls_region, notLs>>

LsNext == LsAppendItem \/ LsAppendJunk \/ LsParse \/ LsIter \/ LsLen

SpecList == LsInit /\ [][LsNext]_vars

\* the region is a concatenation of well-formed items: the items read off it
\* one after the other, each encoded again, give the region back whole
LsWellFormed(tag, region) ==
    DynIterList_encode(tag, ZerocopyList_iter(tag, region)) = region

\* C19: parsing a length-prefixed list, and KeyShareClientHello::parse,
\* succeeds exactly when the declared region is a concatenation of
\* well-formed items without a trailing partial item; the parsed list keeps
\* the region as its raw bytes; and iterating it yields every item in order,
\* so that the items' encodings concatenated are the raw bytes, and a region
\* written by encoding items yields exactly those items.
C19_ListParseIterRoundTrip ==
    /\ ls_pc \in {"parsed", "iterated"} =>
         /\ ls_result.parse.ok <=> LsWellFormed(ls_tag.tag, ls_region)
         /\ ls_result.parse.ok => ls_result.parse.val = ls_region
         /\ ls_result.clean => ls_result.parse.ok
    /\ ls_pc = "iterated" =>
         /\ DynIterList_encode(ls_tag.tag, ls_result.items) = ls_result.parse.val
         /\ ls_result.clean => ls_result.items = ls_items

C19_Witness ==
    /\ ls_pc = "iterated"
    /\ ls_tag.name = "KeyShareClientHello"
    /\ Len(ls_result.items) = MaxListItems
    /\ ls_result.items = ls_items

LsMacroLists ==
    {"PskIdentityList", "SupportedGroups", "PskKeyExchangeModes", "ServerNameList",
     "SupportedVersionsClientHello", "SignatureAlgorithmsCert"}

\* C31: for every successfully parsed list generated by parse_encode_list!,
\* len() is the number of items iter() yields.
C31_LenIsIterCount ==
    (ls_pc = "counted" /\ ls_tag.name \in LsMacroLists) =>
        ls_result.len = Len(ls_result.items)

\* what holds: Binders<Remote>::len counts the iterator's items
LsBindersLenIsIterCount ==
    (ls_pc = "counted" /\ ls_tag.name = "Binders") =>
        ls_result.len = Len(ls_result.items)

(***************************************************************************)
(* Encoding into a CryptoBuffer that can run out of room.  The buffer is   *)
(* its written bytes (their number is the position) and its capacity; an   *)
(* operation returns whether it succeeded and the buffer it leaves.        *)
(***************************************************************************)
CbOk(cb) == [ok |-> TRUE, buf |-> cb]
CbErr(cb) == [ok |-> FALSE, buf |-> cb]

CryptoBuffer_len(cb) == Len(cb.data)

CryptoBuffer_extend_from_slice(cb, bytes) ==
    IF Len(cb.data) + Len(bytes) <= cb.capacity
    THEN CbOk([cb EXCEPT !.data = @ \o bytes])
    ELSE CbErr(cb)

CryptoBuffer_push(cb, byte) == CryptoBuffer_extend_from_slice(cb, <<byte>>)
CryptoBuffer_push_u16(cb, n) == CryptoBuffer_extend_from_slice(cb, U16BE(n))

LengthBE(w, n) ==
    CASE w = 1 -> U8BE(n)
      [] w = 2 -> U16BE(n)
      [] w = 3 -> U24BE(n)

\* a body closure that appends its parts one after the other and stops at the
\* first part that does not fit (DynIterList::encode, the fields of a message)
RECURSIVE EncodeParts(_, _)
EncodeParts(cb, parts) ==
    IF parts = <<>> THEN CbOk(cb)
    ELSE Let(CryptoBuffer_extend_from_slice(cb, Head(parts)), LAMBDA r :
         IF ~r.ok THEN CbErr(r.buf) ELSE EncodeParts(r.buf, Tail(parts)))

\* with_u8_length / with_u16_length / with_u24_length: reserve w bytes, run
\* the body, write the body's length into the reservation; when the body
\* fails the position goes back to the reservation point.
CryptoBuffer_with_length(cb, w, parts) ==
    Let(CryptoBuffer_extend_from_slice(cb, Zeros(w)), LAMBDA reserved :
    IF ~reserved.ok THEN CbErr(cb)
    ELSE Let(EncodeParts(reserved.buf, parts), LAMBDA body :
         IF ~body.ok THEN CbErr(cb)
         ELSE CbOk([body.buf EXCEPT !.data =
                      cb.data \o LengthBE(w, Len(body.buf.data) - Len(cb.data) - w)
                        \o SubSeq(body.buf.data, Len(cb.data) + w + 1,
                                  Len(body.buf.data))])))

\* extension_group!: $name<Local>::encode
Extension_encode_to(cb, code, parts) ==
    Let(CryptoBuffer_push_u16(cb, code), LAMBDA type :
    IF ~type.ok THEN CbErr(type.buf)
    ELSE CryptoBuffer_with_length(type.buf, 2, parts))

\* key_share.rs: KeyShareEntry::encode
KeyShareEntry_encode_to(cb, group, opaque) ==
    Let(CryptoBuffer_push_u16(cb, NamedGroup_as_u16(group)), LAMBDA g :
    IF ~g.ok THEN CbErr(g.buf)
    ELSE CryptoBuffer_with_length(g.buf, 2, <<opaque>>))

\* handshake/mod.rs: LocalHandshake::encode
LocalHandshake_encode_to(cb, type, parts) ==
    Let(CryptoBuffer_push(cb, type), LAMBDA t :
    IF ~t.ok THEN CbErr(t.buf)
    ELSE CryptoBuffer_with_length(t.buf, 3, parts))

\* pre_shared_key.rs: Binders<Local>::encode.  The closure pushes, for each
\* length of the iterator, the length and then that many zero bytes, one
\* byte at a time.
RECURSIVE PushZeros(_)
PushZeros(n) == IF n = 0 THEN <<>> ELSE <<<<0>>>> \o PushZeros(n - 1)

\* the closure without its push of the length
RECURSIVE BinderPushes_no_length(_)
BinderPushes_no_length(lens) ==
    IF lens = <<>> THEN <<>>
    ELSE PushZeros(Head(lens)) \o BinderPushes_no_length(Tail(lens))

RECURSIVE BinderPushes(_)
BinderPushes(lens) ==
    IF lens = <<>> THEN <<>>
    ELSE <<<<Head(lens)>>>> \o PushZeros(Head(lens)) \o BinderPushes(Tail(lens))

Binders_encode_to(cb, lens) == CryptoBuffer_with_length(cb, 2, BinderPushes(lens))

\* the binder lengths the client asks placeholders for
EncBinderLens ==
    {<<>>} \cup {<<a>> : a \in {0, 1, 3}} \cup {<<a, b>> : a, b \in {0, 1, 3}}

\* bodies: nothing, one field, two fields
EncBodies == {<<>>, <<<<1>>>>, <<<<1, 2>>, <<3, 4, 5>>>>}

EncInit ==
    /\ enc_cb \in [data : {<<>>}, capacity : 0..MaxCapacity]
    /\ enc_what = <<>>
    /\ enc_pc = "open"
    /\ enc_before = 0
    /\ enc_result = <<>>
    /\ PskIdle /\ RecIdle /\ ExtIdle /\ RdIdle /\ ClIdle
    /\ LbIdle /\ RcvIdle /\ DpIdle /\ LsIdle /\ CdIdle /\ CnIdle /\ TrIdle /\ ItIdle

\* what was encoded into the buffer before
EncEarlier ==
    /\ enc_pc = "open"
    /\ Len(enc_cb.data) < enc_cb.capacity
    /\ enc_cb' = CryptoBuffer_push(enc_cb, 170).buf
    /\ UNCHANGED <<enc_what, enc_pc, enc_before, enc_result, notEnc>>

EncDone(what, result) ==
    /\ enc_what' = what
    /\ enc_before' = CryptoBuffer_len(enc_cb)
    /\ enc_result' = result.ok
    /\ enc_cb' = result.buf
    /\ enc_pc' = "done"
    /\ UNCHANGED notEnc

EncExtension ==
    /\ enc_pc = "open"
    /\ \E code \in {10, 51}, parts \in EncBodies :
         EncDone([kind |-> "extension", head |-> 2, parts |-> parts],
                 Extension_encode_to(enc_cb, code, parts))

EncKeyShareEntry ==
    /\ enc_pc = "open"
    /\ \E group \in {"Secp256r1", "X25519"}, opaque \in {<<>>, <<1>>, <<1, 2, 3, 4, 5>>} :
         EncDone([kind |-> "key_share_entry", head |-> 2, parts |-> <<opaque>>],
                 KeyShareEntry_encode_to(enc_cb, group, opaque))

EncHandshake ==
    /\ enc_pc = "open"
    /\ \E type \in {1, 11, 15, 20}, parts \in EncBodies :
         EncDone([kind |-> "handshake", head |-> 1, parts |-> parts],
                 LocalHandshake_encode_to(enc_cb, type, parts))

EncBinders ==
    /\ enc_pc = "open"
    /\ \E lens \in EncBinderLens :
         EncDone([kind |-> "binders", head |-> 0, parts |-> lens],
                 Binders_encode_to(enc_cb, lens))

EncNext == EncEarlier \/ EncExtension \/ EncKeyShareEntry \/ EncHandshake \/ EncBinders

SpecEncode == EncInit /\ [][EncNext]_vars

\* C20: after an encode of an extension, a key-share entry or a handshake
\* message that fails, the position of the write buffer is the position
\* before the encode call: the bytes pushed ahead of the length-prefixed
\* region (extension type, group, handshake type) are discarded, too.
C20_FailedEncodeRewinds ==
    (enc_pc = "done" /\ ~enc_result) => CryptoBuffer_len(enc_cb) = enc_before

\* what the code does: a failure inside the length-prefixed region leaves the
\* bytes pushed ahead of it; only a failure of that first push leaves nothing
EncFailureKeepsHead ==
    (enc_pc = "done" /\ ~enc_result) =>
        CryptoBuffer_len(enc_cb) =
            IF enc_before + enc_what.head <= enc_cb.capacity
            THEN enc_before + enc_what.head
            ELSE enc_before

\* where binder i starts in what the encode wrote, behind the length prefix
RECURSIVE BinderOffset(_, _)
BinderOffset(lens, i) ==
    IF i = 1 THEN 2 ELSE BinderOffset(lens, i - 1) + 1 + lens[i - 1]

EncWritten == SubSeq(enc_cb.data, enc_before + 1, Len(enc_cb.data))

\* C22: encoding Binders<Local> from the binder lengths l1..ln writes a u16
\* length prefix equal to the sum of (1 + li), then for each binder the byte
\* li followed by li zero bytes, and nothing else.
C22_BinderPlaceholders ==
    (enc_pc = "done" /\ enc_what.kind = "binders" /\ enc_result) =>
        Let(enc_what.parts, LAMBDA lens :
        Let(BinderOffset(lens, Len(lens) + 1), LAMBDA end :
            /\ Len(EncWritten) = end
            /\ EncWritten[1] * 256 + EncWritten[2] = end - 2
            /\ \A i \in 1..Len(lens) :
                 /\ EncWritten[BinderOffset(lens, i) + 1] = lens[i]
                 /\ \A k \in 1..lens[i] :
                      EncWritten[BinderOffset(lens, i) + 1 + k] = 0))

C22_Witness ==
    /\ enc_pc = "done" /\ enc_what.kind = "binders" /\ enc_result
    /\ enc_what.parts = <<3, 1>>
    /\ enc_before > 0
    /\ EncWritten = <<0, 6, 3, 0, 0, 0, 1, 0>>

(***************************************************************************)
(* The codecs of extension_data/, each run on an input and then back:      *)
(* bytes are parsed and the value encoded again, a value is encoded and    *)
(* the bytes parsed again.                                                 *)
(***************************************************************************)
ExampleCom == <<101, 120, 97, 109, 112, 108, 101, 46, 99, 111, 109>>

\* key_share.rs: group || declared length || the bytes that follow
CdKeyShareBytes ==
    {U16BE(g) \o U16BE(l) \o k :
        g \in {23, 29, 260, 4588, 22, 65535},
        l \in 0..MaxKeyLen,
        k \in {<<>>, <<170>>, <<170, 187>>, <<1, 2, 3>>}}

CdVersionLists == {<<>>, <<772>>, <<771>>, <<772, 771>>, <<771, 772>>}
CdVersionBytes ==
    {<<0>>, <<2, 3, 4>>, <<2, 3, 3>>, <<4, 3, 3, 3, 4>>, <<3, 3, 4, 3>>, <<2, 3>>, <<>>}

CdHostNames == {<<>>, <<97>>, <<97, 46, 98>>, ExampleCom}
CdServerNameBytes ==
    {<<t>> \o U16BE(l) \o n :
        t \in {0, 1, 255},
        l \in 0..MaxKeyLen,
        n \in {<<>>, <<97>>, <<97, 46>>, <<46>>, <<200>>, <<97, 200>>, <<97, 46, 98>>}}
      \cup {<<0, 0, 11>> \o ExampleCom, <<0, 0, 12>> \o ExampleCom \o <<46>>}

CdGroupValues == (0..300) \cup (4580..4600) \cup {5888, 60417, 65535}
CdGroups ==
    {"Secp256r1", "Secp384r1", "Secp521r1", "X25519", "X448", "Ffdhe2048", "Ffdhe3072",
     "Ffdhe4096", "Ffdhe6144", "Ffdhe8192", "X25519MLKEM768", "SecP256r1MLKEM768",
     "SecP384r1MLKEM1024"}

CdInputs ==
    [codec : {"KeyShareEntry"}, dir : {"parse"}, bytes : CdKeyShareBytes]
      \cup [codec : {"SupportedVersionsClientHello"}, dir : {"parse"}, bytes : CdVersionBytes]
      \cup [codec : {"SupportedVersionsClientHello"}, dir : {"encode"}, value : CdVersionLists]
      \cup [codec : {"ServerName"}, dir : {"parse"}, bytes : CdServerNameBytes]
      \cup [codec : {"ServerName"}, dir : {"encode"},
            value : [name_type : {"HostName"}, name : CdHostNames]]
      \cup [codec : {"NamedGroup"}, dir : {"parse"}, bytes : {U16BE(v) : v \in CdGroupValues}]
      \cup [codec : {"NamedGroup"}, dir : {"encode"}, value : CdGroups]
      \cup [codec : {"PskKeyExchangeMode"}, dir : {"parse"}, bytes : {<<b>> : b \in 0..255}]
      \cup [codec : {"PskKeyExchangeMode"}, dir : {"encode"}, value : {"PskKe", "PskDheKe"}]

CdInit ==
    /\ cd_in \in CdInputs
    /\ cd_pc = "input"
    /\ cd_out = [parsed |-> <<>>, encoded |-> <<>>]
    /\ PskIdle /\ RecIdle /\ ExtIdle /\ RdIdle /\ ClIdle
    /\ LbIdle /\ RcvIdle /\ DpIdle /\ LsIdle /\ EncIdle /\ CnIdle /\ TrIdle /\ ItIdle

\* SupportedVersionsClientHello<Remote>::parse and <Local>::encode
SupportedVersionsClientHello_parse(pb) == List_parse("ProtocolVersion", 1, pb)
SupportedVersionsClientHello_encode(versions) ==
    List_encode(1, [i \in 1..Len(versions) |-> ProtocolVersion_encode(versions[i])])

Codec_parse(codec, pb) ==
    CASE codec = "KeyShareEntry" -> KeyShareEntry_parse(pb)
      [] codec = "SupportedVersionsClientHello" -> SupportedVersionsClientHello_parse(pb)
      [] codec = "ServerName" -> ServerName_parse(pb)
      [] codec = "NamedGroup" -> NamedGroup_parse(pb)
      [] codec = "PskKeyExchangeMode" -> PskKeyExchangeMode_parse(pb)

Codec_encode(codec, value) ==
    CASE codec = "KeyShareEntry" -> KeyShareEntry_encode(value)
      [] codec = "SupportedVersionsClientHello" ->
           SupportedVersionsClientHello_encode(value)
      [] codec = "ServerName" -> ServerName_encode(value)
      [] codec = "NamedGroup" -> NamedGroup_encode(value)
      [] codec = "PskKeyExchangeMode" -> PskKeyExchangeMode_encode(value)

\* the value a parse of the list returned: the items its iterator yields
CdValue(codec, val) ==
    IF codec = "SupportedVersionsClientHello"
    THEN ZerocopyList_iter("ProtocolVersion", val)
    ELSE val

\* the codec's parse, on the input bytes or on the bytes its encode wrote
CdParse(codec) ==
    /\ cd_in.codec = codec
    /\ \/ /\ cd_in.dir = "parse" /\ cd_pc = "input"
          /\ cd_out' = [cd_out EXCEPT
                          !.parsed = Codec_parse(codec, ParseBuffer_new(cd_in.bytes))]
          /\ cd_pc' = "applied"
       \/ /\ cd_in.dir = "encode" /\ cd_pc = "applied"
          /\ cd_out' = [cd_out EXCEPT
                          !.parsed = Codec_parse(codec, ParseBuffer_new(cd_out.encoded))]
          /\ cd_pc' = "returned"
    /\ UNCHANGED <<cd_in, notCd>>

\* the codec's encode, of the input value or of the value its parse returned
CdEncode(codec) ==
    /\ cd_in.codec = codec
    /\ \/ /\ cd_in.dir = "encode" /\ cd_pc = "input"
          /\ cd_out' = [cd_out EXCEPT !.encoded = Codec_encode(codec, cd_in.value)]
          /\ cd_pc' = "applied"
       \/ /\ cd_in.dir = "parse" /\ cd_pc = "applied" /\ cd_out.parsed.ok
          /\ cd_out' = [cd_out EXCEPT
                          !.encoded = Codec_encode(codec,
                                                   CdValue(codec, cd_out.parsed.val))]
          /\ cd_pc' = "returned"
    /\ UNCHANGED <<cd_in, notCd>>

CdKeyShareEntryParse == CdParse("KeyShareEntry")
CdKeyShareEntryEncode == CdEncode("KeyShareEntry")
CdSupportedVersionsParse == CdParse("SupportedVersionsClientHello")
CdSupportedVersionsEncode == CdEncode("SupportedVersionsClientHello")
CdServerNameParse == CdParse("ServerName")
CdServerNameEncode == CdEncode("ServerName")
CdNamedGroupParse == CdParse("NamedGroup")
CdNamedGroupEncode == CdEncode("NamedGroup")
CdPskKeyExchangeModeParse == CdParse("PskKeyExchangeMode")
CdPskKeyExchangeModeEncode == CdEncode("PskKeyExchangeMode")

CdNext ==
    \/ CdKeyShareEntryParse \/ CdKeyShareEntryEncode
    \/ CdSupportedVersionsParse \/ CdSupportedVersionsEncode
    \/ CdServerNameParse \/ CdServerNameEncode
    \/ CdNamedGroupParse \/ CdNamedGroupEncode
    \/ CdPskKeyExchangeModeParse \/ CdPskKeyExchangeModeEncode

SpecCodec == CdInit /\ [][CdNext]_vars

CdParsed(codec) ==
    /\ cd_in.codec = codec /\ cd_in.dir = "parse" /\ cd_pc \in {"applied", "returned"}
CdParsedBack(codec) ==
    /\ cd_in.codec = codec /\ cd_in.dir = "parse" /\ cd_pc = "returned"
CdEncoded(codec) ==
    /\ cd_in.codec = codec /\ cd_in.dir = "encode" /\ cd_pc \in {"applied", "returned"}
CdEncodedBack(codec) ==
    /\ cd_in.codec = codec /\ cd_in.dir = "encode" /\ cd_pc = "returned"

U16At(bytes, i) == bytes[i] * 256 + bytes[i + 1]

\* group || length || exactly that many bytes, the group one of the thirteen
CdKeyShareWellFormed(bytes) ==
    /\ Len(bytes) >= 4
    /\ U16At(bytes, 1) \in NamedGroupCodes
    /\ Len(bytes) = 4 + U16At(bytes, 3)

\* C23: KeyShareEntry::parse of group || len || key_exchange[len] yields that
\* group and exactly those len bytes, an empty key included, and encoding the
\* parsed entry yields the input bytes again; 00 17 00 02 AA BB is Secp256r1
\* with opaque AA BB, 00 17 00 00 is Secp256r1 with an empty opaque.
C23_KeyShareEntryRoundTrip ==
    /\ (CdParsed("KeyShareEntry") /\ CdKeyShareWellFormed(cd_in.bytes)) =>
         /\ cd_out.parsed.ok
         /\ NamedGroup_as_u16(cd_out.parsed.val.group) = U16At(cd_in.bytes, 1)
         /\ cd_out.parsed.val.opaque = SubSeq(cd_in.bytes, 5, Len(cd_in.bytes))
         /\ cd_in.bytes = <<0, 23, 0, 2, 170, 187>> =>
              cd_out.parsed.val = [group |-> "Secp256r1", opaque |-> <<170, 187>>]
         /\ cd_in.bytes = <<0, 23, 0, 0>> =>
              cd_out.parsed.val = [group |-> "Secp256r1", opaque |-> <<>>]
    /\ (CdParsedBack("KeyShareEntry") /\ CdKeyShareWellFormed(cd_in.bytes)) =>
         cd_out.encoded = cd_in.bytes

C23_Witness ==
    /\ CdParsedBack("KeyShareEntry")
    /\ cd_in.bytes = <<0, 23, 0, 2, 170, 187>>
    /\ cd_out.parsed.val.group = "Secp256r1"
    /\ cd_out.encoded = <<0, 23, 0, 2, 170, 187>>

\* C24: SupportedVersionsClientHello is a u8-length-prefixed list of 2-byte
\* versions that must contain 0x0304: encoding [0x0304] yields 02 03 04, and
\* parsing the single byte 00, an empty list, yields InvalidData, as does
\* every list without 0x0304.
C24_SupportedVersionsContainTls13 ==
    /\ (CdEncoded("SupportedVersionsClientHello") /\ cd_in.value = <<772>>) =>
         cd_out.encoded = <<2, 3, 4>>
    /\ (CdParsed("SupportedVersionsClientHello") /\ cd_in.bytes = <<0>>) =>
         (~cd_out.parsed.ok /\ cd_out.parsed.err = "InvalidData")
    /\ (CdParsed("SupportedVersionsClientHello") /\ cd_out.parsed.ok) =>
         \E i \in 1..Len(CdValue(cd_in.codec, cd_out.parsed.val)) :
             CdValue(cd_in.codec, cd_out.parsed.val)[i] = 772

\* the name an encoded ServerName declares: the bytes behind type and length
CdDeclaredName(bytes) == SubSeq(bytes, 4, 3 + U16At(bytes, 2))
CdNameComplete(bytes) == Len(bytes) >= 3 /\ Len(bytes) >= 3 + U16At(bytes, 2)
CdTrailingDot(name) == Len(name) > 0 /\ name[Len(name)] = 46

\* C25: ServerName::parse accepts an entry only if its name type is HostName
\* (0) and its name is ASCII without a trailing dot; every other name type,
\* every non-ASCII name and every name ending in '.' yields InvalidData.
C25_ServerNameHostNameAsciiNoDot ==
    (CdParsed("ServerName") /\ CdNameComplete(cd_in.bytes)) =>
        IF /\ cd_in.bytes[1] = 0
           /\ \A i \in 1..Len(CdDeclaredName(cd_in.bytes)) :
                CdDeclaredName(cd_in.bytes)[i] < 128
           /\ ~CdTrailingDot(CdDeclaredName(cd_in.bytes))
        THEN cd_out.parsed.ok
        ELSE ~cd_out.parsed.ok /\ cd_out.parsed.err = "InvalidData"

\* C26: encoding the hostname h writes 00, the u16 big-endian length of h and
\* the bytes of h ("example.com" gives 00 00 0B 65 78 61 6d 70 6c 65 2e 63 6f
\* 6d), and parsing those bytes returns name type HostName and the name h.
C26_ServerNameRoundTrip ==
    /\ CdEncoded("ServerName") =>
         /\ Len(cd_out.encoded) = 3 + Len(cd_in.value.name)
         /\ cd_out.encoded[1] = 0
         /\ U16At(cd_out.encoded, 2) = Len(cd_in.value.name)
         /\ SubSeq(cd_out.encoded, 4, Len(cd_out.encoded)) = cd_in.value.name
         /\ cd_in.value.name = ExampleCom =>
              cd_out.encoded =
                  <<0, 0, 11, 101, 120, 97, 109, 112, 108, 101, 46, 99, 111, 109>>
    /\ CdEncodedBack("ServerName") =>
         /\ cd_out.parsed.ok
         /\ cd_out.parsed.val = [name_type |-> "HostName", name |-> cd_in.value.name]

C26_Witness ==
    /\ CdEncodedBack("ServerName")
    /\ cd_in.value.name = ExampleCom
    /\ cd_out.parsed.ok
    /\ cd_out.parsed.val.name = ExampleCom

\* C27: the NamedGroup codec is a bijection on the thirteen supported groups:
\* parse(encode(g)) = g for every group, encode(parse(v)) = v for every
\* accepted 16-bit value, the hybrids use X25519MLKEM768 = 0x11EC,
\* SecP256r1MLKEM768 = 0x11EB and SecP384r1MLKEM1024 = 0x11ED, and every
\* other 16-bit value yields InvalidData.
C27_NamedGroupBijection ==
    /\ CdEncoded("NamedGroup") =>
         /\ Len(cd_out.encoded) = 2
         /\ U16At(cd_out.encoded, 1) \in NamedGroupCodes
         /\ cd_in.value = "X25519MLKEM768" => cd_out.encoded = <<17, 236>>
         /\ cd_in.value = "SecP256r1MLKEM768" => cd_out.encoded = <<17, 235>>
         /\ cd_in.value = "SecP384r1MLKEM1024" => cd_out.encoded = <<17, 237>>
    /\ CdEncodedBack("NamedGroup") =>
         (cd_out.parsed.ok /\ cd_out.parsed.val = cd_in.value)
    /\ CdParsed("NamedGroup") =>
         /\ cd_out.parsed.ok <=> U16At(cd_in.bytes, 1) \in NamedGroupCodes
         /\ ~cd_out.parsed.ok => cd_out.parsed.err = "InvalidData"
         /\ cd_out.parsed.ok => cd_out.parsed.val \in CdGroups
         /\ cd_in.bytes = <<17, 236>> => cd_out.parsed.val = "X25519MLKEM768"
         /\ cd_in.bytes = <<17, 235>> => cd_out.parsed.val = "SecP256r1MLKEM768"
         /\ cd_in.bytes = <<17, 237>> => cd_out.parsed.val = "SecP384r1MLKEM1024"
    /\ CdParsedBack("NamedGroup") => cd_out.encoded = cd_in.bytes

C27_Witness ==
    /\ CdParsedBack("NamedGroup")
    /\ cd_in.bytes = <<17, 236>>
    /\ cd_out.parsed.val = "X25519MLKEM768"
    /\ cd_out.encoded = <<17, 236>>

\* C28: PskKeyExchangeMode::parse maps the byte 0x00 to PskKe and 0x01 to
\* PskDheKe and returns InvalidData for every other byte value; encode writes
\* the same byte back.
C28_PskKeyExchangeModeCodec ==
    /\ CdParsed("PskKeyExchangeMode") =>
         CASE cd_in.bytes = <<0>> -> cd_out.parsed.ok /\ cd_out.parsed.val = "PskKe"
           [] cd_in.bytes = <<1>> -> cd_out.parsed.ok /\ cd_out.parsed.val = "PskDheKe"
           [] OTHER -> ~cd_out.parsed.ok /\ cd_out.parsed.err = "InvalidData"
    /\ CdParsedBack("PskKeyExchangeMode") => cd_out.encoded = cd_in.bytes
    /\ CdEncoded("PskKeyExchangeMode") =>
         cd_out.encoded = IF cd_in.value = "PskKe" THEN <<0>> ELSE <<1>>
    /\ CdEncodedBack("PskKeyExchangeMode") =>
         (cd_out.parsed.ok /\ cd_out.parsed.val = cd_in.value)

C28_Witness ==
    /\ CdParsedBack("PskKeyExchangeMode")
    /\ cd_in.bytes = <<1>>
    /\ cd_out.parsed.val = "PskDheKe"
    /\ cd_out.encoded = <<1>>

(***************************************************************************)
(* An established connection and its errors.  A call of read or write on   *)
(* a connection that has failed returns the error it failed with; a call   *)
(* on a live connection acts on what the transport delivers.  A record     *)
(* that arrives goes through RecordHeader::decode and                      *)
(* RemoteRecord::decode; a ChangeCipherSpec record is dropped, a           *)
(* close_notify ends the stream, a fatal alert and every error end the     *)
(* connection.                                                             *)
(***************************************************************************)
Connection(state, error) == [state |-> state, error |-> error]

\* what a call returns, and the connection it leaves
CallOk(conn, what) == [ok |-> TRUE, err |-> "none", val |-> what, conn |-> conn]
CallErr(conn, err) == [ok |-> FALSE, err |-> err, val |-> "none", conn |-> conn]

\* a connection that keeps the error of a fatal alert only
Connection_fail_alert_only(conn, err) ==
    CallErr(IF err = "AbortHandshake" THEN Connection("TERMINAL", err) ELSE conn, err)

\* the first error is kept and the connection is terminal
Connection_fail(conn, err) == CallErr(Connection("TERMINAL", err), err)

\* the records and transport errors a read may meet
CnArrivals ==
    { [io |-> TRUE, header |-> <<>>, data |-> <<>>] }
    \cup { [io |-> FALSE, header |-> h \o U16BE(Len(d)), data |-> d] :
             h \in {<<23, 3, 3>>, <<21, 3, 3>>, <<20, 3, 3>>, <<22, 3, 3>>, <<0, 3, 3>>,
                    <<99, 3, 3>>},
             d \in {<<1>>, <<2>>, <<1, 0>>, <<2, 40>>, <<3, 0>>, <<24, 0, 0, 0>>} }

\* one record of a read: what the driver makes of the decoded record
Connection_on_record(conn, arrival) ==
    Let(RecordHeader_decode(arrival.header), LAMBDA header :
    IF ~header.ok THEN Connection_fail(conn, header.err)
    ELSE Let(RemoteRecord_decode(header.val, arrival.data, Digest_new, 0), LAMBDA record :
    IF ~record.ok THEN Connection_fail(conn, record.err)
    ELSE CASE record.val.record = "ApplicationData" -> CallOk(conn, "data")
           [] record.val.record = "ChangeCipherSpec" -> CallOk(conn, "dropped")
           [] record.val.record = "Alert" ->
                IF record.val.alert.level = 2
                THEN Connection_fail(conn, "AbortHandshake")
                ELSE CallOk(conn, "eof")
           [] record.val.record = "Handshake" -> CallOk(conn, "handshake")))

Connection_read(conn, arrival) ==
    IF conn.state = "TERMINAL" THEN CallErr(conn, conn.error)
    ELSE IF arrival.io THEN Connection_fail(conn, "Io")
    ELSE Connection_on_record(conn, arrival)

Connection_write(conn, io) ==
    IF conn.state = "TERMINAL" THEN CallErr(conn, conn.error)
    ELSE IF io THEN Connection_fail(conn, "Io")
    ELSE CallOk(conn, "written")

CnInit ==
    /\ cn_state = "CONNECTED"
    /\ cn_error = "none"
    /\ cn_calls = <<>>
    /\ PskIdle /\ RecIdle /\ ExtIdle /\ RdIdle /\ ClIdle
    /\ LbIdle /\ RcvIdle /\ DpIdle /\ LsIdle /\ EncIdle /\ CdIdle /\ TrIdle /\ ItIdle

CnReturn(op, r) ==
    /\ cn_state' = r.conn.state
    /\ cn_error' = r.conn.error
    /\ cn_calls' = Append(cn_calls, [op |-> op, ok |-> r.ok, err |-> r.err, val |-> r.val])
    /\ UNCHANGED notCn

CnRead ==
    /\ Len(cn_calls) < MaxCalls
    /\ \E arrival \in CnArrivals :
         CnReturn("read", Connection_read(Connection(cn_state, cn_error), arrival))

CnWrite ==
    /\ Len(cn_calls) < MaxCalls
    /\ \E io \in BOOLEAN :
         CnReturn("write", Connection_write(Connection(cn_state, cn_error), io))

CnNext == CnRead \/ CnWrite

SpecConn == CnInit /\ [][CnNext]_vars

\* the calls that failed, in order
CnFailed == SelectSeq(cn_calls, LAMBDA c : ~c.ok)

\* C21: after a fatal alert or any other first error the connection is
\* terminal: every later read or write fails and returns that first error;
\* no later call succeeds, and none replaces the cached error.
C21_FirstErrorIsTerminal ==
    /\ \A i, j \in 1..Len(cn_calls) :
         (i < j /\ ~cn_calls[i].ok) =>
             (~cn_calls[j].ok /\ cn_calls[j].err = CnFailed[1].err)
    /\ CnFailed # <<>> => (cn_state = "TERMINAL" /\ cn_error = CnFailed[1].err)
    /\ CnFailed = <<>> => (cn_state = "CONNECTED" /\ cn_error = "none")

C21_Witness ==
    /\ Len(cn_calls) = 4
    /\ cn_calls[1].ok /\ cn_calls[1].op = "write"
    /\ ~cn_calls[2].ok /\ cn_calls[2].op = "read" /\ cn_calls[2].err = "AbortHandshake"
    /\ ~cn_calls[3].ok /\ cn_calls[3].op = "write" /\ cn_calls[3].err = "AbortHandshake"
    /\ ~cn_calls[4].ok /\ cn_calls[4].op = "read" /\ cn_calls[4].err = "AbortHandshake"

(***************************************************************************)
(* SpecTranscript: one transcript hash across the records a client sends   *)
(* (encode_payload, then finish_record) and the records it receives        *)
(* (RemoteRecord::decode).                                                 *)
(***************************************************************************)
\* Alert::encode: level and description, one byte each
AlertLevel_u8(level) ==
    CASE level = "Warning" -> 1
      [] level = "Fatal" -> 2

AlertDescription_u8(description) ==
    CASE description = "CloseNotify" -> 0
      [] description = "IllegalParameter" -> 47

Alert_encode(alert) == <<AlertLevel_u8(alert[1]), AlertDescription_u8(alert[2])>>

\* the handshake records a client sends: the ClientHello in the clear, with
\* and without a pre-shared key, and the messages of its last flight
TrHandshakes ==
    {<<"Handshake", [type |-> "ClientHello", psk |-> psk], FALSE>> : psk \in BOOLEAN}
      \cup {<<"Handshake", [type |-> "Finished", psk |-> FALSE], e>> : e \in BOOLEAN}
      \cup {<<"Handshake", [type |-> "Certificate", psk |-> FALSE], TRUE>>}

TrInner(message) ==
    CASE message.type = "ClientHello" -> ClientHello_encode(message.psk, ClRandom)
      [] message.type = "Finished" -> Mac(ClientFinishedKey, tr_transcript, HashLen)
      [] message.type = "Certificate" -> <<0, 0, 0, 0>>

TrAlerts ==
    {LocalRecord_close_notify(opened) : opened \in BOOLEAN}
      \cup {<<"Alert", <<"Fatal", "IllegalParameter">>, TRUE>>}

\* the records a peer sends: content type and payload
TrArrivals ==
    {<<0, <<>>>>, <<20, <<1>>>>, <<20, <<2>>>>, <<21, <<1, 0>>>>, <<21, <<2, 40>>>>,
     <<21, <<3, 0>>>>, <<23, <<>>>>, <<23, <<23, 23>>>>,
     <<22, HandshakeMessage(8, <<0, 0>>)>>, <<22, HandshakeMessage(24, <<0>>)>>,
     <<22, <<11, 0>>>>}

TrHeader(content_type, data) ==
    [header |-> <<content_type, 3, 3>> \o U16BE(Len(data))]

TrInit ==
    /\ tr_transcript = Digest_new
    /\ tr_ops = <<>>
    /\ PskIdle /\ RecIdle /\ ExtIdle /\ RdIdle /\ ClIdle
    /\ LbIdle /\ RcvIdle /\ DpIdle /\ LsIdle /\ EncIdle /\ CdIdle /\ CnIdle /\ ItIdle

TrLogged(dir, kind, encrypted, bytes, ok, after) ==
    /\ Len(tr_ops) < MaxTranscriptOps
    /\ tr_ops' = Append(tr_ops, [dir |-> dir, kind |-> kind, encrypted |-> encrypted,
                                 bytes |-> bytes, ok |-> ok,
                                 before |-> tr_transcript, after |-> after])
    /\ tr_transcript' = after
    /\ UNCHANGED notTr

\* a handshake record is written: encode_payload, then finish_record
TrSendHandshake ==
    \E record \in TrHandshakes :
      LET buf == LocalRecord_encode_payload(<<>>, record[2].type, TrInner(record[2]))
          finished == LocalRecord_finish_record(record[1], record[2].type, record[3],
                                                buf, tr_transcript, record[2].psk)
      IN TrLogged("send", record[1], record[3], finished.buf, TRUE, finished.transcript)

\* an alert record is written: encode_payload, then finish_record
TrSendAlert ==
    \E record \in TrAlerts :
      LET buf == Alert_encode(record[2])
          finished == LocalRecord_finish_record(record[1], "none", record[3],
                                                buf, tr_transcript, FALSE)
      IN TrLogged("send", record[1], record[3], finished.buf, TRUE, finished.transcript)

\* a record of the peer is decoded
TrReceive ==
    \E arrival \in TrArrivals :
      \E consumed \in OpaqueChoices(ParseBuffer_new(arrival[2])) :
        LET decoded == RemoteRecord_decode(TrHeader(arrival[1], arrival[2]), arrival[2],
                                           tr_transcript, consumed)
        IN TrLogged("receive", ContentType_of(arrival[1]), arrival[1] = 23, arrival[2],
                    decoded.ok, decoded.digest)

TrNext == TrSendHandshake \/ TrSendAlert \/ TrReceive

SpecTranscript == TrInit /\ [][TrNext]_vars

\* C33: only handshake records change the transcript.  On send, finish_record
\* feeds the transcript for every Handshake record, encrypted or not, and
\* leaves it as it was for an Alert record; on receive, RemoteRecord::decode
\* leaves the digest as it was for ChangeCipherSpec, Alert and
\* ApplicationData records.
C33_OnlyHandshakeRecordsChangeTranscript ==
    /\ \A i \in 1..Len(tr_ops) :
         /\ (tr_ops[i].dir = "send" /\ tr_ops[i].kind = "Handshake") =>
               /\ tr_ops[i].after = Digest_update(tr_ops[i].before, tr_ops[i].bytes)
               /\ tr_ops[i].after # tr_ops[i].before
         /\ (tr_ops[i].dir = "send" /\ tr_ops[i].kind = "Alert") =>
               tr_ops[i].after = tr_ops[i].before
         /\ (tr_ops[i].dir = "receive"
               /\ tr_ops[i].kind \in {"ChangeCipherSpec", "Alert", "ApplicationData"}) =>
               tr_ops[i].after = tr_ops[i].before
         /\ tr_ops[i].after # tr_ops[i].before => tr_ops[i].kind = "Handshake"
         /\ tr_ops[i].before = IF i = 1 THEN Digest_new ELSE tr_ops[i - 1].after
    /\ tr_transcript = IF tr_ops = <<>> THEN Digest_new ELSE tr_ops[Len(tr_ops)].after

\* an encrypted handshake record was sent, then application data was received
C33_Witness ==
    /\ Len(tr_ops) = 2
    /\ tr_ops[1].dir = "send" /\ tr_ops[1].kind = "Handshake" /\ tr_ops[1].encrypted
    /\ tr_ops[2].dir = "receive" /\ tr_ops[2].kind = "ApplicationData" /\ tr_ops[2].ok
    /\ tr_ops[2].bytes # <<>>
    /\ tr_transcript = tr_ops[1].bytes

(***************************************************************************)
(* SpecIter: the loops over a declared region, one iteration at a time:    *)
(* the validation loop of ZerocopyList::parse and KeyShareClientHello::    *)
(* parse, and the while loop of parse_vector.  The region is any bytes.    *)
(***************************************************************************)
\* What one pass through a loop leaves: whether the loop is over, how it
\* went, the cursor and the number of extensions kept.
Iterated(over, ok, buf, kept) == [over |-> over, ok |-> ok, buf |-> buf, kept |-> kept]

\* An iteration that parses the item off a copy of the cursor.
ZerocopyList_step_peek(tag, pb) ==
    IF is_empty(pb) THEN Iterated(TRUE, TRUE, pb, 0)
    ELSE Let(Item_parse(tag, pb), LAMBDA r :
         IF ~r.ok THEN Iterated(TRUE, FALSE, r.buf, 0) ELSE Iterated(FALSE, TRUE, pb, 0))

\* ZerocopyList::parse, KeyShareClientHello::parse: the closure of from_fn
\* under try_for_each, run once
ZerocopyList_step(tag, pb) ==
    IF is_empty(pb) THEN Iterated(TRUE, TRUE, pb, 0)
    ELSE Let(Item_parse(tag, pb), LAMBDA r :
         IF ~r.ok THEN Iterated(TRUE, FALSE, r.buf, 0) ELSE Iterated(FALSE, TRUE, r.buf, 0))

\* parse_vector: the condition and the body of the while loop, run once
parse_vector_step(g, N, ext_buf, kept) ==
    IF is_empty(ext_buf) THEN Iterated(TRUE, TRUE, ext_buf, kept)
    ELSE Let(Extension_parse(g, ext_buf), LAMBDA r :
         IF r.ok
         THEN IF kept < N THEN Iterated(FALSE, TRUE, r.buf, kept + 1)
              ELSE Iterated(TRUE, FALSE, r.buf, kept)
         ELSE IF r.err = "UnknownExtensionType" THEN Iterated(FALSE, TRUE, r.buf, kept)
              ELSE Iterated(TRUE, FALSE, r.buf, kept))

ItTags ==
    {"SliceU8", "PskIdentity", "NamedGroup", "ProtocolVersion", "PskKeyExchangeMode",
     "ServerName", "KeyShareEntry", "SignatureScheme"}

\* the regions of a list: every string of these bytes up to MaxRegion
ItListRegions == SeqsUpTo({0, 1, 23}, 0, MaxRegion)

\* the regions of an extensions block: framed extensions, then bytes that
\* are no extension or are one cut short
ItExtItems ==
    {it \in ExtItems : it.code \in {43, 44, 2570, 65281} /\ Len(it.data) <= 2}
ItExtTails == {<<>>, <<0>>, <<0, 43, 0>>, <<255, 255, 0, 9, 1>>}
ItExtRegions ==
    {ExtBlockBytes(items) \o tail :
        items \in SeqsUpTo(ItExtItems, 0, MaxLoopExts), tail \in ItExtTails}

ItInit ==
    /\ it_loop = <<>>
    /\ it_buf = ParseBuffer_new(<<>>)
    /\ it_n = 0
    /\ it_pc = "input"
    /\ it_kept = 0
    /\ PskIdle /\ RecIdle /\ ExtIdle /\ RdIdle /\ ClIdle /\ LbIdle
    /\ RcvIdle /\ DpIdle /\ LsIdle /\ EncIdle /\ CdIdle /\ CnIdle /\ TrIdle

\* the declared region of a list or of an extensions block is sliced off
ItRegion ==
    /\ it_pc = "input"
    /\ \/ /\ it_loop' \in [kind : {"list"}, tag : ItTags]
          /\ it_buf' \in {ParseBuffer_new(region) : region \in ItListRegions}
       \/ /\ it_loop' \in [kind : {"extensions"}, group : ExtensionGroups,
                            N : 1..MaxExtCap]
          /\ it_buf' \in {ParseBuffer_new(region) : region \in ItExtRegions}
    /\ it_pc' = "run"
    /\ UNCHANGED <<it_n, it_kept, notIt>>

ItAfter(r) ==
    /\ it_buf' = r.buf
    /\ it_kept' = r.kept
    /\ it_n' = IF is_empty(it_buf) THEN it_n ELSE it_n + 1
    /\ it_pc' = IF ~r.over THEN "run" ELSE IF r.ok THEN "ok" ELSE "err"
    /\ UNCHANGED <<it_loop, notIt>>

\* one more pass through the validation loop of a list
ItListIteration ==
    /\ it_pc = "run" /\ it_loop.kind = "list"
    /\ it_n <= Len(as_slice(it_buf))
    /\ \E r \in {ZerocopyList_step(it_loop.tag, it_buf)} : ItAfter(r)

\* one more pass through the while loop of parse_vector
ItExtensionIteration ==
    /\ it_pc = "run" /\ it_loop.kind = "extensions"
    /\ it_n <= Len(as_slice(it_buf))
    /\ \E r \in {parse_vector_step(it_loop.group, it_loop.N, it_buf, it_kept)} :
          ItAfter(r)

ItNext == ItRegion \/ ItListIteration \/ ItExtensionIteration

SpecIter == ItInit /\ [][ItNext]_vars

\* the loops are run to their end
SpecIterLive == SpecIter /\ WF_vars(ItNext)

\* the bytes an iteration that goes on consumes at least
ItLeast == IF it_loop # <<>> /\ it_loop.kind = "extensions" THEN 4 ELSE 1

\* the iterations so far are within the length of the region, and the ones
\* that went on have each moved the cursor on
ItBounded ==
    /\ it_n <= Len(as_slice(it_buf))
    /\ (it_n - (IF it_pc = "err" THEN 1 ELSE 0)) * ItLeast <= offset(it_buf)
    /\ offset(it_buf) <= Len(as_slice(it_buf))

\* an iteration ends the loop with an error or moves the cursor on
ItProgress ==
    it_n' = it_n + 1 => (it_pc' = "err" \/ offset(it_buf') >= offset(it_buf) + ItLeast)

\* the loop taken step by step ends as the loop taken whole
ItAgrees ==
    it_pc \in {"ok", "err"} =>
        (it_pc = "ok") =
            IF it_loop.kind = "list"
            THEN ZerocopyList_validate(it_loop.tag, ParseBuffer_new(as_slice(it_buf))).ok
            ELSE parse_vector_loop(it_loop.group, it_loop.N,
                                   ParseBuffer_new(as_slice(it_buf)), <<>>).ok

\* C35: parse_vector and list validation terminate on every input: each
\* iteration either returns an error or strictly advances the cursor (an
\* extension consumes at least 4 bytes, a list item at least 1), so the
\* number of iterations is at most the length of the declared region, and
\* every loop comes to its end.
C35_LoopsTerminate ==
    /\ [](ItBounded /\ ItAgrees)
    /\ [][ItProgress]_vars
    /\ <>(it_pc \in {"ok", "err"})

\* a list of as many one-byte items as the region has bytes was validated
C35_Witness ==
    /\ it_pc = "ok"
    /\ it_loop.kind = "list"
    /\ it_n = MaxRegion
    /\ Len(as_slice(it_buf)) = MaxRegion

=============================================================================
